---- MODULE Spec2Model ----
(***************************************************************************)
(* Mutual-exclusion locks of rust-concurrent (src/src/lock/*.rs) and the   *)
(* primitives they are built from (acqrel.rs, atomic.rs, guard.rs).        *)
(*                                                                         *)
(* Every lock is a state machine of its own: its shared atomics are the    *)
(* variables with the lock's prefix, a participant's position inside       *)
(* acquire / guard drop is its pc, and one action is one atomic memory     *)
(* operation of the source together with the thread-local code that        *)
(* follows it up to the next atomic operation.  A spin loop that reads a   *)
(* value which keeps it spinning changes nothing and is not a step.        *)
(* Each lock has its own specification (SpecMcs, SpecClh, ...); the        *)
(* variables of the other locks stay as constructed.                       *)
(***************************************************************************)
EXTENDS Integers, Sequences, FiniteSets, TLC

VARIABLES
    \* McsLock (lock/mcs.rs, guard.rs McsGuard)
    mcsTail,        \* McsLock.tail: 0 = None, p = ReleasePtr to p's node
    mcsFlag,        \* Transferable.flag of p's node
    mcsNext,        \* Transferable.t of p's node: 0 = None, q = ReleasePtr to q's inner node
    mcsInnerFlag,   \* Transferable.flag of p's inner node
    mcsLive,        \* the nodes (outer "n", inner "i") that are allocated
    mcsRelease,     \* acquire's local `release`: the previous tail
    mcsQueue,       \* history: the participants whose tail swap has taken effect and
                    \* that have not obtained the guard yet, in the order of the swaps
    mcsPc,
    \* ClhLock (lock/clh.rs, guard.rs ReleaseGuard)
    clhTail,        \* ClhLock.tail: the AcquireBox of the last node swapped in
    clhFlag,        \* Transferable.flag of each node
    clhLive,        \* allocated nodes
    clhRelease,     \* the participant's ReleasePtr (its own node), 0 = none
    clhAcquire,     \* acquire's local `acquire`: the previous tail, 0 = none
    clhQueue,       \* history: the participants whose tail swap has taken effect and
                    \* that have not obtained the guard yet, in the order of the swaps
    clhPc,
    \* TimeoutLock (lock/timeout.rs)
    toTail,         \* TimeoutLock.tail: the RecursiveAcquire of the last node swapped in
    toFlag,         \* Transferable.flag of each node
    toPayload,      \* Transferable.t of each node: Option<RecursiveAcquire>, 0 = None
    toLive,         \* allocated nodes
    toRelease,      \* the participant's ReleasePtr (its own node), 0 = none
    toAcquire,      \* the RecursiveAcquire the participant examines next, 0 = none
    toPending,      \* nodes whose drop has begun and whose memory is not yet freed
    toPc,
    \* ArrayLock (lock/array.rs, guard.rs ArrayGuard)
    arFlags,        \* ArrayLock.flags
    arNextSlot,     \* ArrayLock.next_slot
    arRefsLeft,     \* ArrayLock.refs_left
    arRef,          \* each participant's ArrayRef: "none" or "ref"
    arSlot,         \* acquire's local `slot`
    arPc,
    \* BakeryLock (lock/bakery.rs, guard.rs FlagGuard)
    bkFlags,        \* BakeryLock.flags
    bkLabels,       \* BakeryLock.labels
    bkRefsLeft,     \* BakeryLock.refs_left
    bkRef,          \* each participant's BakeryRef: "none" or "ref"
    bkDrops,        \* history: the number of BakeryRefs dropped so far
    bkId,           \* BakeryRef.id of the participant's reference or guard, -1 without either
    bkK,            \* acquire's loop index (the label scan, then the closure's k)
    bkMaxLabel,     \* acquire's local max_label
    bkMyLabel,      \* acquire's local my_label
    bkPc,
    \* FilterLock (lock/filter.rs, guard.rs LevelGuard)
    flLevels,       \* FilterLock.levels
    flVictims,      \* FilterLock.victims
    flRefsLeft,     \* FilterLock.refs_left
    flRef,          \* each participant's FilterRef: "none" or "ref"
    flDrops,        \* history: the number of FilterRefs dropped so far
    flId,           \* FilterRef.id of the participant's reference or guard, -1 without either
    flI,            \* acquire's level loop variable i
    flK,            \* the spin closure's k
    flPc,
    \* PetersonLock (lock/peterson.rs, guard.rs FlagGuard)
    ptMaxThreads,   \* the max_threads passed to with_capacity
    ptFlags,        \* PetersonLock.flags
    ptVictim,       \* PetersonLock.victim
    ptRefsLeft,     \* PetersonLock.refs_left
    ptId,           \* PetersonRef.id of each participant
    ptPc,
    \* TasLock, TtasLock, BackoffLock (lock/tas.rs, lock/ttas.rs, backoff.rs,
    \* guard.rs TasGuard)
    tasKind,        \* which of the three locks is in use
    tasLocked,      \* TasLock.locked / TtasLock.locked
    tasLimit,       \* Backoff.limit of each participant's acquire
    tasDelay,       \* what is left of the participant's sleep(delay)
    tasPc,
    \* Bounded locks: borrow and the drop of a reference (lock/peterson.rs,
    \* lock/filter.rs, lock/bakery.rs, lock/array.rs)
    brKind,         \* which bounded lock is in use
    brMaxThreads,   \* the max_threads passed to with_capacity
    brRefsLeft,     \* the lock's refs_left
    brId,           \* the id of the reference each participant holds
    brResult,       \* what each participant's last borrow returned
    brFreed,        \* history: a reference was dropped while capacity() were
                    \* outstanding and no borrow has succeeded since
    brPc,
    \* Atomic<T> (atomic.rs, raw.rs): one cell shared by several callers
    atCell,         \* the raw pointer in the cell: 0 = null (None), v = the value v
    atCopy,         \* T: Copy (an integer, bool or raw pointer cell): load and store exist
    atAlive,        \* the cell exists (neither dropped nor consumed by into_inner)
    atBorn,         \* number of values allocated so far
    atHeld,         \* the values each caller owns
    atDisposed,     \* history: how often each value has been disposed
    atInstalled,    \* history: how often each value has been put into the cell
    atReturned,     \* history: how often each value has been handed out of the cell
    atLast,         \* history: the last operation, its arguments and its result
    \* The handshake of acqrel.rs (AcquireBox / ReleasePtr) and notify.rs
    \* (Box<Wait> / Notify): one allocation, its waiting side and its notifier
    hsAlloc,        \* the Transferable / Wait allocation: "none", "live", "freed"
    hsFlag,         \* its flag
    hsT,            \* its payload t: the number of writes made to it
    hsNotifier,     \* the ReleasePtr / Notify: "none", "live", "dropped"
    hsWaiter,       \* the AcquireBox / Box<Wait>: "none", "live", "dropped"
    hsLast,         \* history: the waiting side's last accessor call and its result
    \* Backoff (backoff.rs)
    boPc,           \* "none" before Backoff::new, then "ready"; "panicked" after a panic
    boLimit,        \* Backoff.limit, in nanoseconds
    boMaxLimit,     \* Backoff.max_limit
    boDelay,        \* the duration the last backoff() slept for
    \* ArrayLock with its references (lock/array.rs, guard.rs ArrayGuard)
    aqFlags,        \* ArrayLock.flags, no flag before with_capacity
    aqNextSlot,     \* ArrayLock.next_slot
    aqRefsLeft,     \* ArrayLock.refs_left
    aqRef,          \* "ref" while the participant owns an ArrayRef, "restore" inside
                    \* a failing borrow, else "none"
    aqSlot,         \* acquire's local `slot`
    aqGuard         \* "spin" inside acquire, "held" with the ArrayGuard, "setnext"
                    \* inside its drop, else "none"

mcsVars == <<mcsTail, mcsFlag, mcsNext, mcsInnerFlag, mcsLive, mcsRelease, mcsQueue, mcsPc>>
clhVars == <<clhTail, clhFlag, clhLive, clhRelease, clhAcquire, clhQueue, clhPc>>
toVars == <<toTail, toFlag, toPayload, toLive, toRelease, toAcquire, toPending, toPc>>
arVars == <<arFlags, arNextSlot, arRefsLeft, arRef, arSlot, arPc>>
bkVars == <<bkFlags, bkLabels, bkRefsLeft, bkRef, bkDrops, bkId, bkK, bkMaxLabel, bkMyLabel, bkPc>>
flVars == <<flLevels, flVictims, flRefsLeft, flRef, flDrops, flId, flI, flK, flPc>>
ptVars == <<ptMaxThreads, ptFlags, ptVictim, ptRefsLeft, ptId, ptPc>>
tasVars == <<tasKind, tasLocked, tasLimit, tasDelay, tasPc>>
brVars == <<brKind, brMaxThreads, brRefsLeft, brId, brResult, brFreed, brPc>>
atVars == <<atCell, atCopy, atAlive, atBorn, atHeld, atDisposed, atInstalled, atReturned, atLast>>
hsVars == <<hsAlloc, hsFlag, hsT, hsNotifier, hsWaiter, hsLast>>
boVars == <<boPc, boLimit, boMaxLimit, boDelay>>
aqVars == <<aqFlags, aqNextSlot, aqRefsLeft, aqRef, aqSlot, aqGuard>>
vars == <<mcsVars, clhVars, toVars, arVars, bkVars, flVars, ptVars, tasVars, brVars, atVars, hsVars, boVars, aqVars>>

None == 0

(***************************************************************************)
(* McsLock                                                                 *)
(***************************************************************************)
McsProcs == 3
McsP == 1..McsProcs

\* McsLock::new: tail is None, no node exists.
McsInit ==
    /\ mcsTail = None
    /\ mcsFlag = [p \in McsP |-> FALSE]
    /\ mcsNext = [p \in McsP |-> None]
    /\ mcsInnerFlag = [p \in McsP |-> FALSE]
    /\ mcsLive = {}
    /\ mcsRelease = [p \in McsP |-> None]
    /\ mcsQueue = <<>>
    /\ mcsPc = [p \in McsP |-> "idle"]

McsFrame == UNCHANGED <<clhVars, toVars, arVars, bkVars, flVars, ptVars, tasVars, brVars, atVars, hsVars, boVars, aqVars>>

\* acquire, lines 28-29: AcquireBox::new(None) and tail.swap(Some(next)).
\* With no previous tail the guard is returned at once.
McsSwap(p) ==
    /\ mcsPc[p] = "idle"
    /\ mcsFlag' = [mcsFlag EXCEPT ![p] = FALSE]
    /\ mcsNext' = [mcsNext EXCEPT ![p] = None]
    /\ mcsLive' = mcsLive \cup {<<"n", p>>}
    /\ mcsTail' = p
    /\ mcsRelease' = [mcsRelease EXCEPT ![p] = mcsTail]
    /\ mcsPc' = [mcsPc EXCEPT ![p] = IF mcsTail = None THEN "held" ELSE "link"]
    /\ mcsQueue' = IF mcsTail = None THEN mcsQueue ELSE Append(mcsQueue, p)
    /\ UNCHANGED mcsInnerFlag
    /\ McsFrame

\* acquire, lines 30-31: AcquireBox::default() and *release = Some(inner_release).
McsLink(p) ==
    /\ mcsPc[p] = "link"
    /\ mcsInnerFlag' = [mcsInnerFlag EXCEPT ![p] = FALSE]
    /\ mcsLive' = mcsLive \cup {<<"i", p>>}
    /\ mcsNext' = [mcsNext EXCEPT ![mcsRelease[p]] = p]
    /\ mcsPc' = [mcsPc EXCEPT ![p] = "notify"]
    /\ UNCHANGED <<mcsTail, mcsFlag, mcsRelease, mcsQueue>>
    /\ McsFrame

\* acquire, line 32: drop(release) stores true into the predecessor's flag.
McsDropRelease(p) ==
    /\ mcsPc[p] = "notify"
    /\ mcsFlag' = [mcsFlag EXCEPT ![mcsRelease[p]] = TRUE]
    /\ mcsRelease' = [mcsRelease EXCEPT ![p] = None]
    /\ mcsPc' = [mcsPc EXCEPT ![p] = "spin"]
    /\ UNCHANGED <<mcsTail, mcsNext, mcsInnerFlag, mcsLive, mcsQueue>>
    /\ McsFrame

\* The queue of waiting participants once p has obtained the guard.
McsLeave(queue, p) == SelectSeq(queue, LAMBDA q : q # p)

\* TransferableAcquired as it would be if Transferable::acquire did not spin.
TransferableAcquiredAlways(flag) == TRUE

\* The flag value that lets AcquireBox::drop / as_mut leave Transferable::acquire.
TransferableAcquired(flag) == flag

\* McsSpin as it would be if the inner AcquireBox were forgotten, not dropped.
McsSpinNoWait(p) ==
    /\ mcsPc[p] = "spin"
    /\ mcsLive' = mcsLive \ {<<"i", p>>}
    /\ mcsQueue' = McsLeave(mcsQueue, p)
    /\ mcsPc' = [mcsPc EXCEPT ![p] = "held"]
    /\ UNCHANGED <<mcsTail, mcsFlag, mcsNext, mcsInnerFlag, mcsRelease>>
    /\ McsFrame

\* acquire, lines 33-35: drop(inner_acquire) spins until the inner flag is set,
\* frees the inner node, and the guard is returned.
McsSpin(p) ==
    /\ mcsPc[p] = "spin"
    /\ TransferableAcquired(mcsInnerFlag[p])
    /\ mcsLive' = mcsLive \ {<<"i", p>>}
    /\ mcsQueue' = McsLeave(mcsQueue, p)
    /\ mcsPc' = [mcsPc EXCEPT ![p] = "held"]
    /\ UNCHANGED <<mcsTail, mcsFlag, mcsNext, mcsInnerFlag, mcsRelease>>
    /\ McsFrame

\* McsCas as it would be if the compare-and-swap succeeded whatever the tail.
McsCasAlways(p) ==
    /\ mcsPc[p] = "held"
    /\ mcsTail' = None
    /\ mcsPc' = [mcsPc EXCEPT ![p] = "casdrop"]
    /\ UNCHANGED <<mcsFlag, mcsNext, mcsInnerFlag, mcsLive, mcsRelease, mcsQueue>>
    /\ McsFrame

\* McsCas as it would be if the successful compare-and-swap stored nothing.
McsCasKeepsTail(p) ==
    /\ mcsPc[p] = "held"
    /\ mcsPc' = [mcsPc EXCEPT ![p] = IF mcsTail = p THEN "casdrop" ELSE "wait"]
    /\ UNCHANGED <<mcsTail, mcsFlag, mcsNext, mcsInnerFlag, mcsLive, mcsRelease, mcsQueue>>
    /\ McsFrame

\* McsGuard::drop, lines 92-93: tail.compare_swap_strong(notify_raw, None).
McsCas(p) ==
    /\ mcsPc[p] = "held"
    /\ IF mcsTail = p
          THEN /\ mcsTail' = None
               /\ mcsPc' = [mcsPc EXCEPT ![p] = "casdrop"]
          ELSE /\ mcsTail' = mcsTail
               /\ mcsPc' = [mcsPc EXCEPT ![p] = "wait"]
    /\ UNCHANGED <<mcsFlag, mcsNext, mcsInnerFlag, mcsLive, mcsRelease, mcsQueue>>
    /\ McsFrame

\* McsGuard::drop, line 93: the ReleasePtr the successful compare-and-swap
\* returned is dropped, which sets the own node's flag.
McsCasDrop(p) ==
    /\ mcsPc[p] = "casdrop"
    /\ mcsFlag' = [mcsFlag EXCEPT ![p] = TRUE]
    /\ mcsPc' = [mcsPc EXCEPT ![p] = "wait"]
    /\ UNCHANGED <<mcsTail, mcsNext, mcsInnerFlag, mcsLive, mcsRelease, mcsQueue>>
    /\ McsFrame

\* McsGuard::drop, a load of the own flag that finds it set.  With a notifier
\* in the node it is the load of acquire.as_mut() at line 94, and take() moves
\* the notifier out.  With none (the compare-and-swap succeeded, or the notifier
\* has been taken and dropped) it is the load of AcquireBox::drop at the end
\* of the drop, after which the node is freed; the as_mut load before it
\* changes nothing.
McsWait(p) ==
    /\ mcsPc[p] = "wait"
    /\ TransferableAcquired(mcsFlag[p])
    /\ mcsNext' = [mcsNext EXCEPT ![p] = None]
    /\ IF mcsNext[p] = None
          THEN /\ mcsLive' = mcsLive \ {<<"n", p>>}
               /\ mcsRelease' = mcsRelease
               /\ mcsPc' = [mcsPc EXCEPT ![p] = "idle"]
          ELSE /\ mcsLive' = mcsLive
               /\ mcsRelease' = [mcsRelease EXCEPT ![p] = mcsNext[p]]
               /\ mcsPc' = [mcsPc EXCEPT ![p] = "wake"]
    /\ UNCHANGED <<mcsTail, mcsFlag, mcsInnerFlag, mcsQueue>>
    /\ McsFrame

\* McsWake as it would be if the taken ReleasePtr were forgotten, not dropped.
McsWakeNothing(p) ==
    /\ mcsPc[p] = "wake"
    /\ mcsRelease' = [mcsRelease EXCEPT ![p] = None]
    /\ mcsPc' = [mcsPc EXCEPT ![p] = "wait"]
    /\ UNCHANGED <<mcsTail, mcsFlag, mcsNext, mcsInnerFlag, mcsLive, mcsQueue>>
    /\ McsFrame

\* McsGuard::drop, line 94: the taken ReleasePtr is dropped at the end of the
\* statement, which sets the successor's inner flag.  The drop of the guard's
\* AcquireBox, with its own load, is still to come.
McsWake(p) ==
    /\ mcsPc[p] = "wake"
    /\ mcsInnerFlag' = [mcsInnerFlag EXCEPT ![mcsRelease[p]] = TRUE]
    /\ mcsRelease' = [mcsRelease EXCEPT ![p] = None]
    /\ mcsPc' = [mcsPc EXCEPT ![p] = "wait"]
    /\ UNCHANGED <<mcsTail, mcsFlag, mcsNext, mcsLive, mcsQueue>>
    /\ McsFrame

McsNext ==
    \E p \in McsP :
        \/ McsSwap(p)
        \/ McsLink(p)
        \/ McsDropRelease(p)
        \/ McsSpin(p)
        \/ McsCas(p)
        \/ McsCasDrop(p)
        \/ McsWait(p)
        \/ McsWake(p)

McsHeld == {p \in McsP : mcsPc[p] = "held"}

\* C1: at most one McsGuard is held at any instant.
McsMutualExclusion == Cardinality(McsHeld) <= 1

\* C1 witness: a participant holds the guard it was handed by its predecessor's
\* drop while another one, linked behind it, spins on its inner flag.
McsContended ==
    \E p, q \in McsP :
        /\ p # q
        /\ mcsPc[p] = "held"
        /\ mcsPc[q] = "spin"
        /\ mcsTail # p
        /\ mcsFlag[p]

\* C15: McsLock is FIFO: a guard handed over by a predecessor goes to the
\* participant whose swap on the tail is the earliest among those waiting, and
\* a participant whose swap found the tail empty, as after a releaser's
\* successful compare-and-swap, obtains the guard with nobody waiting.
McsFifo ==
    [][\A p \in McsP :
          (mcsPc[p] # "held" /\ mcsPc'[p] = "held")
              => IF mcsPc[p] = "idle" THEN mcsQueue = <<>> ELSE Head(mcsQueue) = p]_vars

\* C15 witness: a releaser has reset the tail by its compare-and-swap and is
\* still in its drop, the next participant has obtained the guard from the
\* empty tail, and the others wait behind it in the order of their swaps.
McsQueueAfterReset ==
    \E p, q \in McsP :
        /\ mcsPc[p] = "casdrop"
        /\ mcsPc[q] = "held"
        /\ Len(mcsQueue) = McsProcs - 2
        /\ mcsPc[mcsQueue[1]] = "spin"

\* The steps of a participant that is inside acquire or holds a guard: the
\* scheduler runs every thread again and again, and every guard is dropped.
\* Calling acquire (McsSwap) is left to the participant.
McsStep(p) ==
    \/ McsLink(p)
    \/ McsDropRelease(p)
    \/ McsSpin(p)
    \/ McsCas(p)
    \/ McsCasDrop(p)
    \/ McsWait(p)
    \/ McsWake(p)

McsFairness == \A p \in McsP : WF_vars(McsStep(p))

\* C16: McsLock has no lost wakeups: under fair scheduling and with every
\* guard dropped, every acquire call returns and every guard drop terminates,
\* also when the releaser's compare-and-swap fails before the successor has
\* linked itself.
McsNoLostWakeup ==
    \A p \in McsP :
        /\ (mcsPc[p] \in {"link", "notify", "spin"}) ~> (mcsPc[p] = "held")
        /\ (mcsPc[p] \in {"casdrop", "wait", "wake"}) ~> (mcsPc[p] = "idle")

\* C16 witness: the holder's compare-and-swap has failed and it waits for the
\* link of a successor that has swapped itself into the tail and not yet
\* stored its notifier in the holder's node.
McsReleaserAwaitsLink ==
    \E p, q \in McsP :
        /\ mcsPc[p] = "wait"
        /\ ~mcsFlag[p]
        /\ mcsNext[p] = None
        /\ mcsPc[q] = "link"
        /\ mcsRelease[q] = p

\* Participant p's step is the tail swap of acquire.
McsSwaps(p) == mcsPc[p] = "idle" /\ mcsPc'[p] # "idle"

\* C35: quiescence of McsLock: when no participant holds a guard or is inside
\* acquire or a guard drop the tail is None; a tail that is not None points to
\* a node that has not been freed, and to the node of the most recent tail
\* swap: every swap leaves the tail at the swapper's node, and the tail
\* changes otherwise only to None, by the compare-and-swap of the guard whose
\* node it pointed to.
McsQuiescence ==
    /\ []((\A p \in McsP : mcsPc[p] = "idle") => mcsTail = None)
    /\ [](mcsTail # None => <<"n", mcsTail>> \in mcsLive)
    /\ [][\A p \in McsP : McsSwaps(p) => mcsTail' = p]_vars
    /\ [][mcsTail' # mcsTail =>
            \/ \E p \in McsP : McsSwaps(p)
            \/ /\ mcsTail' = None
               /\ mcsPc[mcsTail] = "held"
               /\ mcsPc'[mcsTail] = "casdrop"]_vars

\* C35 witness: the lock is quiescent again, with an empty tail and no node
\* left, after a participant queued behind a holder and was woken by it.
McsQuietAfterHandOver ==
    /\ \A p \in McsP : mcsPc[p] = "idle"
    /\ mcsTail = None
    /\ mcsLive = {}
    /\ \E q \in McsP : mcsInnerFlag[q]

(***************************************************************************)
(* ClhLock                                                                 *)
(***************************************************************************)
ClhProcs == 3
ClhP == 1..ClhProcs
\* Node addresses: one per participant and the node the constructor seeds.
ClhNodes == 1..(ClhProcs + 1)

\* The allocator hands out an address that is not in use.
ClhFresh == CHOOSE n \in ClhNodes : n \notin clhLive /\ \A m \in ClhNodes : m \notin clhLive => n <= m

\* ClhInit as it would be with default() in place of default_acquired().
ClhInitUnreleased ==
    /\ clhTail = 1
    /\ clhFlag = [n \in ClhNodes |-> FALSE]
    /\ clhLive = {1}
    /\ clhRelease = [p \in ClhP |-> None]
    /\ clhAcquire = [p \in ClhP |-> None]
    /\ clhQueue = <<>>
    /\ clhPc = [p \in ClhP |-> "idle"]

\* ClhLock::new: the tail is AcquireBox::default_acquired(), flag already true.
ClhInit ==
    /\ clhTail = 1
    /\ clhFlag = [n \in ClhNodes |-> n = 1]
    /\ clhLive = {1}
    /\ clhRelease = [p \in ClhP |-> None]
    /\ clhAcquire = [p \in ClhP |-> None]
    /\ clhQueue = <<>>
    /\ clhPc = [p \in ClhP |-> "idle"]

ClhFrame == UNCHANGED <<mcsVars, toVars, arVars, bkVars, flVars, ptVars, tasVars, brVars, atVars, hsVars, boVars, aqVars>>

\* ClhSwap as it would be with default_acquired() in place of default().
ClhSwapAcquired(p) ==
    /\ clhPc[p] = "idle"
    /\ ClhNodes \ clhLive # {}
    /\ clhLive' = clhLive \cup {ClhFresh}
    /\ clhFlag' = [clhFlag EXCEPT ![ClhFresh] = TRUE]
    /\ clhTail' = ClhFresh
    /\ clhRelease' = [clhRelease EXCEPT ![p] = ClhFresh]
    /\ clhAcquire' = [clhAcquire EXCEPT ![p] = clhTail]
    /\ clhQueue' = Append(clhQueue, p)
    /\ clhPc' = [clhPc EXCEPT ![p] = "spin"]
    /\ ClhFrame

\* acquire, lines 27-28: AcquireBox::default() and tail.swap(next).
ClhSwap(p) ==
    /\ clhPc[p] = "idle"
    /\ ClhNodes \ clhLive # {}
    /\ clhLive' = clhLive \cup {ClhFresh}
    /\ clhFlag' = [clhFlag EXCEPT ![ClhFresh] = FALSE]
    /\ clhTail' = ClhFresh
    /\ clhRelease' = [clhRelease EXCEPT ![p] = ClhFresh]
    /\ clhAcquire' = [clhAcquire EXCEPT ![p] = clhTail]
    /\ clhQueue' = Append(clhQueue, p)
    /\ clhPc' = [clhPc EXCEPT ![p] = "spin"]
    /\ ClhFrame

\* The queue of waiting participants once p has obtained the guard.
ClhLeave(queue, p) == SelectSeq(queue, LAMBDA q : q # p)

\* ClhSpin as it would be if drop(acquire) did not wait for the flag.
ClhSpinNoWait(p) ==
    /\ clhPc[p] = "spin"
    /\ clhLive' = clhLive \ {clhAcquire[p]}
    /\ clhAcquire' = [clhAcquire EXCEPT ![p] = None]
    /\ clhQueue' = ClhLeave(clhQueue, p)
    /\ clhPc' = [clhPc EXCEPT ![p] = "held"]
    /\ UNCHANGED <<clhTail, clhFlag, clhRelease>>
    /\ ClhFrame

\* acquire, lines 29-30: drop(acquire) spins until the predecessor's flag is
\* set, frees the predecessor's node, and the guard is returned.
ClhSpin(p) ==
    /\ clhPc[p] = "spin"
    /\ TransferableAcquired(clhFlag[clhAcquire[p]])
    /\ clhLive' = clhLive \ {clhAcquire[p]}
    /\ clhAcquire' = [clhAcquire EXCEPT ![p] = None]
    /\ clhQueue' = ClhLeave(clhQueue, p)
    /\ clhPc' = [clhPc EXCEPT ![p] = "held"]
    /\ UNCHANGED <<clhTail, clhFlag, clhRelease>>
    /\ ClhFrame

\* ReleaseGuard::drop: ReleasePtr::drop stores true into the own node's flag.
ClhRelease(p) ==
    /\ clhPc[p] = "held"
    /\ clhFlag' = [clhFlag EXCEPT ![clhRelease[p]] = TRUE]
    /\ clhRelease' = [clhRelease EXCEPT ![p] = None]
    /\ clhPc' = [clhPc EXCEPT ![p] = "idle"]
    /\ UNCHANGED <<clhTail, clhLive, clhAcquire, clhQueue>>
    /\ ClhFrame

ClhNext ==
    \E p \in ClhP :
        \/ ClhSwap(p)
        \/ ClhSpin(p)
        \/ ClhRelease(p)

ClhHeld == {p \in ClhP : clhPc[p] = "held"}

\* C2: at most one ReleaseGuard is held at any instant, and acquire returns only
\* once the node it swapped out of the tail has its flag set and its ReleasePtr
\* has been dropped.
ClhMutualExclusion ==
    /\ [](Cardinality(ClhHeld) <= 1)
    /\ [][\A p \in ClhP :
            (clhPc[p] = "spin" /\ clhPc'[p] = "held") =>
                /\ clhFlag[clhAcquire[p]]
                /\ \A q \in ClhP : clhRelease[q] # clhAcquire[p]]_vars

\* C2 witness: a participant that waited for its predecessor holds the guard
\* while the next one spins on the holder's node.
ClhContended ==
    \E p, q \in ClhP :
        /\ p # q
        /\ clhPc[p] = "held"
        /\ clhPc[q] = "spin"
        /\ clhAcquire[q] = clhRelease[p]
        /\ clhRelease[p] # 2

\* C14: ClhLock is FIFO: the participant that obtains the guard is the one
\* whose swap on the tail is the earliest among those still waiting, so guards
\* are obtained in the order of the swaps.
ClhFifo ==
    [][\A p \in ClhP :
          (clhPc[p] = "spin" /\ clhPc'[p] = "held") => Head(clhQueue) = p]_vars

\* C14 witness: behind the holder every other participant waits, the first
\* of the swap order on the holder's node and each later one on the node of
\* the one before it.
ClhQueueBehindHolder ==
    \E p \in ClhP :
        /\ clhPc[p] = "held"
        /\ Len(clhQueue) = ClhProcs - 1
        /\ clhAcquire[clhQueue[1]] = clhRelease[p]
        /\ \A i \in 2..Len(clhQueue) :
              clhAcquire[clhQueue[i]] = clhRelease[clhQueue[i - 1]]

\* The steps of a participant that is inside acquire or holds a guard: the
\* scheduler runs every thread again and again, and every guard is dropped.
\* Calling acquire (ClhSwap) is left to the participant.
ClhStep(p) ==
    \/ ClhSpin(p)
    \/ ClhRelease(p)

ClhFairness == \A p \in ClhP : WF_vars(ClhStep(p))

\* The lock as ClhLock::new leaves it: the seeded node alone, in the tail.
ClhFreshLock ==
    /\ clhTail = 1
    /\ clhLive = {1}
    /\ \A p \in ClhP : clhPc[p] = "idle"

\* C17: under fair scheduling and with every guard dropped, every acquire
\* call returns a guard; and the first acquire on a fresh lock finds the flag
\* of the node it swapped out already set, so that it waits for nobody.
ClhAcquireReturns ==
    /\ \A p \in ClhP : (clhPc[p] = "spin") ~> (clhPc[p] = "held")
    /\ [][\A p \in ClhP :
            (ClhFreshLock /\ clhPc'[p] = "spin")
                => TransferableAcquired(clhFlag'[clhAcquire'[p]])]_vars

\* C17 witness: the first acquire on the fresh lock has swapped out the seeded
\* node, whose flag is set, and a second participant already waits behind it.
ClhFirstAcquire ==
    \E p, q \in ClhP :
        /\ clhPc[p] = "spin"
        /\ clhAcquire[p] = 1
        /\ clhFlag[1]
        /\ clhPc[q] = "spin"
        /\ clhAcquire[q] = clhRelease[p]

(***************************************************************************)
(* TimeoutLock                                                             *)
(***************************************************************************)
ToProcs == 3
ToP == 1..ToProcs
\* Node addresses.  Abandoned nodes of timed-out attempts stay allocated until
\* a successor walks over them, so the heap in use has no bound of its own;
\* with every address taken no further operation starts.  The lock never
\* compares addresses, so the heap is kept up to renaming: the allocated nodes
\* are 1..Cardinality(toLive), numbered in the order of their allocation.
ToMaxNodes == 6
ToNodes == 1..ToMaxNodes
Dangling == -1

ToFresh == Cardinality(toLive) + 1

\* TimeoutLock::new: the tail is an already acquired node with payload None.
ToInit ==
    /\ toTail = 1
    /\ toFlag = [n \in ToNodes |-> n = 1]
    /\ toPayload = [n \in ToNodes |-> None]
    /\ toLive = {1}
    /\ toRelease = [p \in ToP |-> None]
    /\ toAcquire = [p \in ToP |-> None]
    /\ toPending = [p \in ToP |-> {}]
    /\ toPc = [p \in ToP |-> "idle"]

ToFrame == UNCHANGED <<mcsVars, clhVars, arVars, bkVars, flVars, ptVars, tasVars, brVars, atVars, hsVars, boVars, aqVars>>

\* AcquireBox::default() and tail.swap(RecursiveAcquire(acquire)), the first two
\* statements of both acquire ("drop": the swapped-out value is dropped, which
\* blocks) and try_acquire ("recur": it is polled with try_recur).
ToSwap(p, next) ==
    /\ toPc[p] = "idle"
    /\ ToFresh \in ToNodes
    /\ toLive' = toLive \cup {ToFresh}
    /\ toFlag' = [toFlag EXCEPT ![ToFresh] = FALSE]
    /\ toPayload' = [toPayload EXCEPT ![ToFresh] = None]
    /\ toTail' = ToFresh
    /\ toRelease' = [toRelease EXCEPT ![p] = ToFresh]
    /\ toAcquire' = [toAcquire EXCEPT ![p] = toTail]
    /\ toPc' = [toPc EXCEPT ![p] = next]
    /\ UNCHANGED toPending
    /\ ToFrame

\* <&TimeoutLock as LockRef>::acquire.
ToAcquireSwap(p) == ToSwap(p, "drop")

\* TimeoutLock::try_acquire.
ToTrySwap(p) == ToSwap(p, "recur")

\* The address of node n once the nodes F are freed; a pointer into F dangles.
ToRename(n, F) ==
    IF n = None THEN None
    ELSE IF n \in F THEN Dangling
    ELSE n - Cardinality({f \in F : f < n})

\* Box deallocation of the nodes F: the heap after the step, given the step's
\* values of the pointers and node fields.
ToFree(F, payload, release, acquire, pending) ==
    LET survivor(i) == CHOOSE n \in toLive \ F : ToRename(n, F) = i
        left == 1..(Cardinality(toLive \ F))
    IN  /\ toLive' = left
        /\ toFlag' = [i \in ToNodes |-> IF i \in left THEN toFlag[survivor(i)] ELSE FALSE]
        /\ toPayload' = [i \in ToNodes |->
                            IF i \in left THEN ToRename(payload[survivor(i)], F) ELSE None]
        /\ toTail' = ToRename(toTail, F)
        /\ toRelease' = [q \in ToP |-> ToRename(release[q], F)]
        /\ toAcquire' = [q \in ToP |-> ToRename(acquire[q], F)]
        /\ toPending' = [q \in ToP |-> {ToRename(n, F) : n \in pending[q] \ F}]

\* acquire: the drop of the swapped-out RecursiveAcquire.  AcquireBox::drop
\* spins on the node's flag, then the payload is dropped the same way, and the
\* memory of the nodes is released once the innermost drop has returned.
ToDrop(p) ==
    /\ toPc[p] = "drop"
    /\ TransferableAcquired(toFlag[toAcquire[p]])
    /\ IF toPayload[toAcquire[p]] = None
          THEN /\ ToFree(toPending[p] \cup {toAcquire[p]}, toPayload, toRelease,
                         [toAcquire EXCEPT ![p] = None],
                         [toPending EXCEPT ![p] = {}])
               /\ toPc' = [toPc EXCEPT ![p] = "held"]
          ELSE /\ toPending' = [toPending EXCEPT ![p] = @ \cup {toAcquire[p]}]
               /\ toAcquire' = [toAcquire EXCEPT ![p] = toPayload[toAcquire[p]]]
               /\ UNCHANGED <<toLive, toFlag, toPayload, toTail, toRelease, toPc>>
    /\ ToFrame

\* ToAttach as it would be if the timed-out attempt left its node empty.
ToAttachNothing(inner_acquire) == None

\* The payload a timed-out try_acquire leaves in its own node.
ToAttach(inner_acquire) == inner_acquire

\* try_acquire: the flag load of try_as_mut in RecursiveAcquire::try_recur.
\*   flag set, payload Some : the payload is taken and polled next;
\*   flag set, payload None : this try_recur returns None;
\*   flag not set           : this try_recur returns Some(node).
\* toAcquire[p] keeps what try_recur returns.  Every node passed on the way,
\* the last one with its flag set included, is dropped when its try_recur
\* returns ("unwind"); with no such node the deadline check of try_acquire
\* follows at once: either the deadline has passed (elapsed: *release =
\* Some(inner_acquire), return None) or the loop goes round with
\* acquire = inner_acquire.
ToRecur(p, elapsed) ==
    /\ toPc[p] = "recur"
    /\ IF TransferableAcquired(toFlag[toAcquire[p]])
          THEN /\ ~elapsed
               /\ toPending' = [toPending EXCEPT ![p] = @ \cup {toAcquire[p]}]
               /\ IF toPayload[toAcquire[p]] = None
                     THEN /\ toAcquire' = [toAcquire EXCEPT ![p] = None]
                          /\ toPc' = [toPc EXCEPT ![p] = "unwind"]
                          /\ toPayload' = toPayload
                     ELSE /\ toAcquire' = [toAcquire EXCEPT ![p] = toPayload[toAcquire[p]]]
                          /\ toPc' = toPc
                          /\ toPayload' = [toPayload EXCEPT ![toAcquire[p]] = None]
               /\ UNCHANGED <<toLive, toFlag, toTail, toRelease>>
          ELSE IF toPending[p] # {}
                  THEN /\ ~elapsed
                       /\ toPc' = [toPc EXCEPT ![p] = "unwind"]
                       /\ UNCHANGED <<toLive, toFlag, toPayload, toTail, toRelease,
                                      toAcquire, toPending>>
                  ELSE IF elapsed
                          THEN /\ toPayload' = [toPayload EXCEPT
                                                   ![toRelease[p]] = ToAttach(toAcquire[p])]
                               /\ toAcquire' = [toAcquire EXCEPT ![p] = None]
                               /\ toPc' = [toPc EXCEPT ![p] = "timedout"]
                               /\ UNCHANGED <<toLive, toFlag, toTail, toRelease, toPending>>
                          ELSE UNCHANGED toVars
    /\ ToFrame

\* try_acquire: the drop of self at the end of one try_recur, innermost call
\* first.  AcquireBox::drop loads the flag of the node (it is set), then the
\* node is freed; a payload is older than the node that holds it, so the
\* innermost node is the one allocated first.  When the outermost try_recur
\* has returned, try_acquire goes on with what it returned: None, the guard is
\* returned; Some(inner_acquire), the deadline check as in ToRecur.
ToRecurDrop(p, elapsed) ==
    LET n == CHOOSE n \in toPending[p] : \A m \in toPending[p] : n <= m
        rest == [toPending EXCEPT ![p] = @ \ {n}]
    IN  /\ toPc[p] = "unwind"
        /\ TransferableAcquired(toFlag[n])
        /\ IF rest[p] # {}
              THEN /\ ~elapsed
                   /\ ToFree({n}, toPayload, toRelease, toAcquire, rest)
                   /\ toPc' = toPc
              ELSE IF toAcquire[p] = None
                      THEN /\ ~elapsed
                           /\ ToFree({n}, toPayload, toRelease, toAcquire, rest)
                           /\ toPc' = [toPc EXCEPT ![p] = "held"]
                      ELSE IF elapsed
                              THEN /\ ToFree({n},
                                             [toPayload EXCEPT
                                                 ![toRelease[p]] = ToAttach(toAcquire[p])],
                                             toRelease,
                                             [toAcquire EXCEPT ![p] = None],
                                             rest)
                                   /\ toPc' = [toPc EXCEPT ![p] = "timedout"]
                              ELSE /\ ToFree({n}, toPayload, toRelease, toAcquire, rest)
                                   /\ toPc' = [toPc EXCEPT ![p] = "recur"]
        /\ ToFrame

\* ToTimedOut as it would be if the abandoned node's flag were never set.
ToTimedOutNoRelease(p) ==
    /\ toPc[p] = "timedout"
    /\ toRelease' = [toRelease EXCEPT ![p] = None]
    /\ toPc' = [toPc EXCEPT ![p] = "idle"]
    /\ UNCHANGED <<toTail, toFlag, toPayload, toLive, toAcquire, toPending>>
    /\ ToFrame

\* try_acquire returning None: its ReleasePtr is dropped, which sets the flag of
\* the abandoned node.
ToTimedOut(p) ==
    /\ toPc[p] = "timedout"
    /\ toFlag' = [toFlag EXCEPT ![toRelease[p]] = TRUE]
    /\ toRelease' = [toRelease EXCEPT ![p] = None]
    /\ toPc' = [toPc EXCEPT ![p] = "idle"]
    /\ UNCHANGED <<toTail, toPayload, toLive, toAcquire, toPending>>
    /\ ToFrame

\* Dropping the TimeoutGuard (a ReleasePtr) sets the own node's flag.
ToRelease(p) ==
    /\ toPc[p] = "held"
    /\ toFlag' = [toFlag EXCEPT ![toRelease[p]] = TRUE]
    /\ toRelease' = [toRelease EXCEPT ![p] = None]
    /\ toPc' = [toPc EXCEPT ![p] = "idle"]
    /\ UNCHANGED <<toTail, toPayload, toLive, toAcquire, toPending>>
    /\ ToFrame

ToNext ==
    \E p \in ToP :
        \/ ToAcquireSwap(p)
        \/ ToTrySwap(p)
        \/ ToDrop(p)
        \/ \E elapsed \in BOOLEAN : ToRecur(p, elapsed)
        \/ \E elapsed \in BOOLEAN : ToRecurDrop(p, elapsed)
        \/ ToTimedOut(p)
        \/ ToRelease(p)

ToHeld == {p \in ToP : toPc[p] = "held"}

\* C3: at most one TimeoutGuard is held at any instant, whatever mix of
\* acquire, try_acquire (succeeding or timing out) and guard drops runs; so
\* while an earlier participant holds the lock nobody queued behind a
\* timed-out try_acquire holds a guard.
ToMutualExclusion == Cardinality(ToHeld) <= 1

\* C3 witness: try_acquire timed out behind the holder h and left node m
\* (flag set, payload = h's node) in the queue, and a later participant q has
\* swapped itself in behind m and is still waiting.
ToAbandonedBehindHolder ==
    \E h, q \in ToP : \E m \in toLive :
        /\ h # q
        /\ toPc[h] = "held"
        /\ toFlag[m]
        /\ toPayload[m] = toRelease[h]
        /\ toPc[q] \in {"drop", "recur"}
        /\ toAcquire[q] = m

\* Nobody but p holds a guard or is inside acquire or try_acquire.
ToAlone(p) == \A q \in ToP \ {p} : toPc[q] = "idle"

\* C21: a try_acquire that runs while no other participant holds the lock or
\* is queued never finds an unset flag, whatever abandoned nodes earlier
\* timed-out attempts left in the queue: every poll of try_recur walks on, so
\* the call cannot time out (not even with a zero timeout) and returns a guard.
ToAbandonedNeverBlocks ==
    \A p \in ToP :
        (toPc[p] = "recur" /\ ToAlone(p)) =>
            /\ toAcquire[p] \in toLive
            /\ TransferableAcquired(toFlag[toAcquire[p]])

\* C21 witness: the holder has dropped its guard, nobody else is active, and
\* the try_acquire of p has swapped out an abandoned node (flag set, payload =
\* the released node of the former holder) left by a timed-out attempt.
ToRetryOverAbandoned ==
    \E p \in ToP :
        /\ toPc[p] = "recur"
        /\ ToAlone(p)
        /\ toPending[p] = {}
        /\ toPayload[toAcquire[p]] \in toLive
        /\ toFlag[toPayload[toAcquire[p]]]
        /\ toPayload[toPayload[toAcquire[p]]] = None

\* The parties that own node n: the tail cell, the payload of a node, or a
\* participant's local RecursiveAcquire.  While acquire drops a chain, the
\* node it has reached is still the payload of the node before it, which is
\* the owner.
ToOwners(n) ==
    (IF toTail = n THEN {<<"tail", None>>} ELSE {})
        \cup {<<"payload", m>> : m \in {m \in toLive : toPayload[m] = n}}
        \cup {<<"local", p>> : p \in {p \in ToP :
                    /\ toAcquire[p] = n \/ n \in toPending[p]
                    /\ ~\E m \in toPending[p] : toPayload[m] = n}}

\* Every pointer of the lock, of its nodes and of the participants.
ToPointers ==
    {toTail} \cup {toPayload[n] : n \in toLive}
        \cup {toRelease[p] : p \in ToP} \cup {toAcquire[p] : p \in ToP}
        \cup UNION {toPending[p] : p \in ToP}

\* C22: every allocated queue node has exactly one owner; no pointer refers to
\* freed memory (no node is freed twice or while in use); the nodes a
\* participant has passed and will free have their flag set, and so has the
\* node whose poll ends the walk; a timed-out try_acquire has the remainder of
\* its predecessor chain in its own node while its own flag is still unset.
ToNodeOwnership ==
    /\ [](\A n \in toLive : Cardinality(ToOwners(n)) = 1)
    /\ [](ToPointers \subseteq toLive \cup {None})
    /\ [](\A p \in ToP : \A n \in toPending[p] : TransferableAcquired(toFlag[n]))
    /\ [](\A p \in ToP : toPc[p] = "timedout" =>
            /\ ~toFlag[toRelease[p]]
            /\ toPayload[toRelease[p]] \in toLive
            /\ ToOwners(toPayload[toRelease[p]]) = {<<"payload", toRelease[p]>>})
    /\ [][\A p \in ToP :
            /\ (\/ (toPc[p] = "drop" /\ toPc'[p] = "held")
                 \/ (toPc[p] = "recur" /\ toPc'[p] = "unwind" /\ toAcquire'[p] = None))
                    => TransferableAcquired(toFlag[toAcquire[p]])
            /\ (toPc[p] = "unwind" /\ toPc'[p] = "held") => toAcquire[p] = None]_vars
    /\ [][Cardinality(toLive') < Cardinality(toLive) =>
            \E p \in ToP :
                \/ /\ toPc[p] = "drop"
                   /\ toPending'[p] = {}
                   /\ Cardinality(toLive) - Cardinality(toLive')
                         <= Cardinality(toPending[p]) + 1
                \/ /\ toPc[p] = "unwind"
                   /\ Cardinality(toPending'[p]) = Cardinality(toPending[p]) - 1
                   /\ Cardinality(toLive') = Cardinality(toLive) - 1]_vars

\* C22 witness: a timed-out try_acquire has stored the unreleased remainder of
\* a chain of two nodes in its own node and has not yet set its own flag,
\* having freed an abandoned node it walked over.
ToRemainderReattached ==
    \E p \in ToP : \E m \in toLive :
        /\ toPc[p] = "timedout"
        /\ toPayload[toRelease[p]] = m
        /\ ~toFlag[m]
        /\ toPayload[m] # None

(***************************************************************************)
(* ArrayLock                                                               *)
(***************************************************************************)
\* with_capacity(ArCapacity).  A participant is one ArrayRef at a time and
\* the guard obtained with it; there are as many participants as the capacity.
ArCapacity == 3
ArP == 1..ArCapacity
\* No acquire starts once next_slot has reached ArMaxSlot.
ArMaxSlot == 7

\* ArrayLock::with_capacity(ArCapacity): the first flag true, every capacity
\* slot free.
ArInit ==
    /\ arFlags = [i \in 0..(ArCapacity - 1) |-> i = 0]
    /\ arNextSlot = 0
    /\ arRefsLeft = ArCapacity
    /\ arRef = [p \in ArP |-> "none"]
    /\ arSlot = [p \in ArP |-> 0]
    /\ arPc = [p \in ArP |-> "idle"]

ArFrame == UNCHANGED <<mcsVars, clhVars, toVars, bkVars, flVars, ptVars, tasVars, brVars, atVars, hsVars, boVars, aqVars>>

\* ArrayLock::get_flag: the index of the flag that slot number `slot` maps to.
ArGetFlag(slot) == slot % ArCapacity

\* ArrayLock::borrow: refs_left.fetch_sub(1, Relaxed) returning a positive
\* count.  With as many participants as the capacity it never returns less;
\* the else branch is the subject of the Borrow section.
ArBorrow(p) ==
    /\ arRef[p] = "none"
    /\ arPc[p] = "idle"
    /\ arRefsLeft > 0
    /\ arRefsLeft' = arRefsLeft - 1
    /\ arRef' = [arRef EXCEPT ![p] = "ref"]
    /\ UNCHANGED <<arFlags, arNextSlot, arSlot, arPc>>
    /\ ArFrame

\* ArrayRef::drop: refs_left.fetch_add(1, Relaxed).  acquire borrows the
\* reference for the call only, so it is dropped outside acquire, with or
\* without the guard still held.
ArDropRef(p) ==
    /\ arRef[p] = "ref"
    /\ arPc[p] \in {"idle", "held"}
    /\ arRefsLeft' = arRefsLeft + 1
    /\ arRef' = [arRef EXCEPT ![p] = "none"]
    /\ UNCHANGED <<arFlags, arNextSlot, arSlot, arPc>>
    /\ ArFrame

\* acquire: slot = next_slot.fetch_add(1).
ArTakeSlot(p) ==
    /\ arRef[p] = "ref"
    /\ arPc[p] = "idle"
    /\ arNextSlot < ArMaxSlot
    /\ arSlot' = [arSlot EXCEPT ![p] = arNextSlot]
    /\ arNextSlot' = arNextSlot + 1
    /\ arPc' = [arPc EXCEPT ![p] = "spin"]
    /\ UNCHANGED <<arFlags, arRefsLeft, arRef>>
    /\ ArFrame

\* acquire: while !curr_flag.load(Acquire) { }, then the guard is returned.
ArSpin(p) ==
    /\ arPc[p] = "spin"
    /\ arFlags[ArGetFlag(arSlot[p])]
    /\ arPc' = [arPc EXCEPT ![p] = "held"]
    /\ UNCHANGED <<arFlags, arNextSlot, arRefsLeft, arRef, arSlot>>
    /\ ArFrame

\* ArrayGuard::drop as it would be without the store that clears curr_flag.
ArClearNothing(p) ==
    /\ arPc[p] = "held"
    /\ arPc' = [arPc EXCEPT ![p] = "setnext"]
    /\ UNCHANGED <<arFlags, arNextSlot, arRefsLeft, arRef, arSlot>>
    /\ ArFrame

\* ArrayGuard::drop: curr_flag.store(false, Relaxed).
ArClear(p) ==
    /\ arPc[p] = "held"
    /\ arFlags' = [arFlags EXCEPT ![ArGetFlag(arSlot[p])] = FALSE]
    /\ arPc' = [arPc EXCEPT ![p] = "setnext"]
    /\ UNCHANGED <<arNextSlot, arRefsLeft, arRef, arSlot>>
    /\ ArFrame

\* ArrayGuard::drop: next_flag.store(true, Release).
ArSetNext(p) ==
    /\ arPc[p] = "setnext"
    /\ arFlags' = [arFlags EXCEPT ![ArGetFlag(arSlot[p] + 1)] = TRUE]
    /\ arPc' = [arPc EXCEPT ![p] = "idle"]
    /\ UNCHANGED <<arNextSlot, arRefsLeft, arRef, arSlot>>
    /\ ArFrame

ArNext ==
    \E p \in ArP :
        \/ ArBorrow(p)
        \/ ArDropRef(p)
        \/ ArTakeSlot(p)
        \/ ArSpin(p)
        \/ ArClear(p)
        \/ ArSetNext(p)

ArHeld == {p \in ArP : arPc[p] = "held"}

\* C4: with at most ArCapacity participants, each with its own ArrayRef and at
\* most one guard, at most one ArrayGuard is held at any instant.
ArMutualExclusion == Cardinality(ArHeld) <= 1

\* C4 witness: the ring has wrapped (the holder's slot number is at least the
\* capacity) and every other participant spins on a slot of its own.
ArContendedAfterWrap ==
    \E p \in ArP :
        /\ arPc[p] = "held"
        /\ arSlot[p] >= ArCapacity
        /\ \A q \in ArP \ {p} : arPc[q] = "spin"

(***************************************************************************)
(* BakeryLock                                                              *)
(***************************************************************************)
\* with_capacity(BkCapacity).  A participant is one BakeryRef at a time and
\* the guard obtained with it.  A label above BkLabelBound is never published.
BkCapacity == 3
BkLabelBound == 4
BkP == 1..BkCapacity
BkIndex == 0..(BkCapacity - 1)
\* No BakeryRef is dropped once BkMaxDrops have been.
BkMaxDrops == 1

\* BakeryLock::borrow: the identity of the reference handed out when the
\* fetch_sub returned refs_left.
BkBorrowId(refs_left) == refs_left

\* BakeryLock::with_capacity followed by BkCapacity successful borrows, the
\* p-th of them by participant p.
BkInit ==
    /\ bkFlags = [i \in BkIndex |-> FALSE]
    /\ bkLabels = [i \in BkIndex |-> 0]
    /\ bkRefsLeft = 0
    /\ bkRef = [p \in BkP |-> "ref"]
    /\ bkDrops = 0
    /\ bkId = [p \in BkP |-> BkBorrowId(BkCapacity - (p - 1))]
    /\ bkK = [p \in BkP |-> 0]
    /\ bkMaxLabel = [p \in BkP |-> 0]
    /\ bkMyLabel = [p \in BkP |-> 0]
    /\ bkPc = [p \in BkP |-> "idle"]

BkFrame == UNCHANGED <<mcsVars, clhVars, toVars, arVars, flVars, ptVars, tasVars, brVars, atVars, hsVars, boVars, aqVars>>

\* BakeryLock::borrow: refs_left.fetch_sub(1, Relaxed) returning a positive
\* count.  With as many participants as the capacity it never returns less;
\* the else branch is the subject of the Borrow section.
BkBorrow(p) ==
    /\ bkRef[p] = "none"
    /\ bkPc[p] = "idle"
    /\ bkRefsLeft > 0
    /\ bkRefsLeft' = bkRefsLeft - 1
    /\ bkRef' = [bkRef EXCEPT ![p] = "ref"]
    /\ bkId' = [bkId EXCEPT ![p] = BkBorrowId(bkRefsLeft)]
    /\ UNCHANGED <<bkFlags, bkLabels, bkDrops, bkK, bkMaxLabel, bkMyLabel, bkPc>>
    /\ BkFrame

\* BakeryRef::drop: refs_left.fetch_add(1, Relaxed).  acquire borrows the
\* reference for the call only, so it is dropped outside acquire, with or
\* without the guard still held (the guard keeps the identity's flag), or by
\* the unwinding of a panic.
BkDropRef(p) ==
    /\ bkRef[p] = "ref"
    /\ bkPc[p] \in {"idle", "held", "panicked"}
    /\ bkDrops < BkMaxDrops
    /\ bkDrops' = bkDrops + 1
    /\ bkRefsLeft' = bkRefsLeft + 1
    /\ bkRef' = [bkRef EXCEPT ![p] = "none"]
    /\ bkId' = IF bkPc[p] = "held" THEN bkId ELSE [bkId EXCEPT ![p] = -1]
    /\ UNCHANGED <<bkFlags, bkLabels, bkK, bkMaxLabel, bkMyLabel, bkPc>>
    /\ BkFrame

\* acquire: flags[self.id].store(true, SeqCst).  Indexing the boxed slice with
\* an identity that is no index panics.
BkSetFlag(p) ==
    /\ bkRef[p] = "ref"
    /\ bkPc[p] = "idle"
    /\ IF bkId[p] \in BkIndex
          THEN /\ bkFlags' = [bkFlags EXCEPT ![bkId[p]] = TRUE]
               /\ bkPc' = [bkPc EXCEPT ![p] = "scan"]
          ELSE /\ bkFlags' = bkFlags
               /\ bkPc' = [bkPc EXCEPT ![p] = "panicked"]
    /\ bkK' = [bkK EXCEPT ![p] = 0]
    /\ bkMaxLabel' = [bkMaxLabel EXCEPT ![p] = 0]
    /\ UNCHANGED <<bkLabels, bkRefsLeft, bkRef, bkDrops, bkId, bkMyLabel>>
    /\ BkFrame

\* acquire: one label.load(SeqCst) of the scan `for label in labels`.
BkScan(p) ==
    /\ bkPc[p] = "scan"
    /\ bkMaxLabel' = [bkMaxLabel EXCEPT ![p] =
                         IF bkLabels[bkK[p]] > @ THEN bkLabels[bkK[p]] ELSE @]
    /\ IF bkK[p] + 1 < BkCapacity
          THEN /\ bkK' = [bkK EXCEPT ![p] = @ + 1]
               /\ bkPc' = bkPc
          ELSE /\ bkK' = [bkK EXCEPT ![p] = 0]
               /\ bkPc' = [bkPc EXCEPT ![p] = "publish"]
    /\ UNCHANGED <<bkFlags, bkLabels, bkRefsLeft, bkRef, bkDrops, bkId, bkMyLabel>>
    /\ BkFrame

\* The closure's next k after k, skipping k == self.id; BkCapacity when the
\* range is used up (any() returns false and the spin loop ends).
BkNextK(k, id) ==
    IF k + 1 = id THEN k + 2 ELSE k + 1

BkFirstK(id) == BkNextK(-1, id)

\* The participant's position once the closure has returned false for k.
BkAdvance(p, k) ==
    IF BkNextK(k, bkId[p]) < BkCapacity
       THEN /\ bkK' = [bkK EXCEPT ![p] = BkNextK(k, bkId[p])]
            /\ bkPc' = [bkPc EXCEPT ![p] = "spinflag"]
       ELSE /\ bkK' = [bkK EXCEPT ![p] = 0]
            /\ bkPc' = [bkPc EXCEPT ![p] = "held"]

\* acquire: my_label = max_label + 1 and labels[self.id].store(my_label, SeqCst).
BkPublish(p) ==
    /\ bkPc[p] = "publish"
    /\ bkMaxLabel[p] + 1 <= BkLabelBound
    /\ bkMyLabel' = [bkMyLabel EXCEPT ![p] = bkMaxLabel[p] + 1]
    /\ bkLabels' = [bkLabels EXCEPT ![bkId[p]] = bkMaxLabel[p] + 1]
    /\ bkMaxLabel' = [bkMaxLabel EXCEPT ![p] = 0]
    /\ BkAdvance(p, -1)
    /\ UNCHANGED <<bkFlags, bkRefsLeft, bkRef, bkDrops, bkId>>
    /\ BkFrame

\* acquire, spin closure: flags[k].load(SeqCst); a clear flag returns false.
BkSpinFlag(p) ==
    /\ bkPc[p] = "spinflag"
    /\ IF bkFlags[bkK[p]]
          THEN /\ bkPc' = [bkPc EXCEPT ![p] = "spinlabel"]
               /\ bkK' = bkK
          ELSE BkAdvance(p, bkK[p])
    /\ UNCHANGED <<bkFlags, bkLabels, bkRefsLeft, bkRef, bkDrops, bkId, bkMaxLabel, bkMyLabel>>
    /\ BkFrame

\* BkMustWait as it would be without the tie-break on equal labels.
BkMustWaitNoTieBreak(other_label, my_label, k, id) ==
    other_label < my_label

\* acquire, spin closure after the flag was seen set: whether participant k
\* goes first.
BkMustWait(other_label, my_label, k, id) ==
    IF other_label < my_label THEN TRUE
    ELSE IF other_label > my_label THEN FALSE
    ELSE k < id

\* acquire, spin closure: labels[k].load(Relaxed) and the comparison.  When the
\* closure returns true the loop body runs and any() starts again.
BkSpinLabel(p) ==
    /\ bkPc[p] = "spinlabel"
    /\ IF BkMustWait(bkLabels[bkK[p]], bkMyLabel[p], bkK[p], bkId[p])
          THEN /\ bkK' = [bkK EXCEPT ![p] = BkFirstK(bkId[p])]
               /\ bkPc' = [bkPc EXCEPT ![p] = "spinflag"]
          ELSE BkAdvance(p, bkK[p])
    /\ UNCHANGED <<bkFlags, bkLabels, bkRefsLeft, bkRef, bkDrops, bkId, bkMaxLabel, bkMyLabel>>
    /\ BkFrame

\* BkRelease as it would be if the drop of the guard left the flag set.
BkReleaseNothing(p) ==
    /\ bkPc[p] = "held"
    /\ bkPc' = [bkPc EXCEPT ![p] = "idle"]
    /\ bkId' = IF bkRef[p] = "ref" THEN bkId ELSE [bkId EXCEPT ![p] = -1]
    /\ UNCHANGED <<bkFlags, bkLabels, bkRefsLeft, bkRef, bkDrops, bkK, bkMaxLabel, bkMyLabel>>
    /\ BkFrame

\* FlagGuard::drop: flag.store(false, Release).  The identity goes with the
\* guard when the reference has been dropped before it.
BkRelease(p) ==
    /\ bkPc[p] = "held"
    /\ bkFlags' = [bkFlags EXCEPT ![bkId[p]] = FALSE]
    /\ bkPc' = [bkPc EXCEPT ![p] = "idle"]
    /\ bkId' = IF bkRef[p] = "ref" THEN bkId ELSE [bkId EXCEPT ![p] = -1]
    /\ UNCHANGED <<bkLabels, bkRefsLeft, bkRef, bkDrops, bkK, bkMaxLabel, bkMyLabel>>
    /\ BkFrame

BkNext ==
    \E p \in BkP :
        \/ BkBorrow(p)
        \/ BkDropRef(p)
        \/ BkSetFlag(p)
        \/ BkScan(p)
        \/ BkPublish(p)
        \/ BkSpinFlag(p)
        \/ BkSpinLabel(p)
        \/ BkRelease(p)

\* The identities of the references and guards in use are pairwise distinct.
BkDistinct ==
    \A p, q \in BkP : (p # q /\ bkId[p] # -1) => bkId[p] # bkId[q]

\* The steps of BkNext that keep the identities pairwise distinct: the borrow
\* that would hand out an identity still in use is left out.
BkDistinctNext ==
    \E p \in BkP :
        \/ BkBorrow(p) /\ BkDistinct'
        \/ BkDropRef(p)
        \/ BkSetFlag(p)
        \/ BkScan(p)
        \/ BkPublish(p)
        \/ BkSpinFlag(p)
        \/ BkSpinLabel(p)
        \/ BkRelease(p)

BkHeld == {p \in BkP : bkPc[p] = "held"}

\* The participants the claims about acquire speak of: those whose identity
\* is an index of flags and labels.
BkValid == {p \in BkP : bkId[p] \in BkIndex}

\* C5: among participants with pairwise distinct valid identities at most one
\* FlagGuard is held at any instant, the label scan and the publication being
\* separate steps.
BkMutualExclusion ==
    (\A p, q \in BkValid : p # q => bkId[p] # bkId[q]) => Cardinality(BkHeld) <= 1

\* C5 witness: two participants scanned concurrently and published the same
\* label; one holds the guard, the other is still in its spin loop.
BkTieWhileHeld ==
    \E p, q \in BkValid :
        /\ p # q
        /\ bkPc[p] = "held"
        /\ bkPc[q] \in {"spinflag", "spinlabel"}
        /\ bkLabels[bkId[p]] = bkLabels[bkId[q]]
        /\ bkMyLabel[q] = bkLabels[bkId[q]]

\* The steps of a participant that is inside acquire or holds a guard: the
\* scheduler runs every thread again and again, and every guard is dropped.
\* Calling acquire (BkSetFlag) is left to the participant.
BkStep(p) ==
    \/ BkScan(p)
    \/ BkPublish(p)
    \/ BkSpinFlag(p)
    \/ BkSpinLabel(p)
    \/ BkRelease(p)

BkFairness == \A p \in BkP : WF_vars(BkStep(p))

BkInAcquire(p) == bkPc[p] \in {"scan", "publish", "spinflag", "spinlabel"}

\* The participants that have published their label and spin.
BkWaiting == {p \in BkP : bkPc[p] \in {"spinflag", "spinlabel"}}

\* Some participant is about to publish a label above BkLabelBound, which the
\* bounded labels do not hold: it stays there with its flag set.
BkLabelsExhausted ==
    \E q \in BkP : bkPc[q] = "publish" /\ bkMaxLabel[q] + 1 > BkLabelBound

\* C20: BakeryLock is starvation-free among participants of pairwise distinct
\* valid identities, under fair scheduling and with every guard dropped:
\* every acquire call returns a guard as long as labels are left; a guard
\* goes to a participant only when no waiting participant is before it in
\* the order of (label, identity); and every label a participant publishes
\* is above the stale one it replaces, so that a waiting participant is
\* overtaken by each of the others only as often as there are labels below
\* its own.
BkStarvationFree ==
    /\ \A p \in BkP :
          (bkId[p] \in BkIndex /\ BkInAcquire(p)) ~> (bkPc[p] = "held" \/ BkLabelsExhausted)
    /\ [][\A q \in BkP :
            (bkPc[q] # "held" /\ bkPc'[q] = "held")
                => \A p \in BkWaiting \ {q} :
                      ~BkMustWait(bkMyLabel[p], bkMyLabel'[q], bkId[p], bkId[q])]_vars
    /\ [][\A p \in BkP :
            (bkPc[p] = "publish" /\ bkPc'[p] # "publish")
                => bkLabels'[bkId[p]] > bkLabels[bkId[p]]]_vars

\* C20 witness: a participant spins on the stale label of another that has
\* dropped its guard, set its flag again and not yet published a new label.
BkWaitsOnStaleLabel ==
    \E p, q \in BkValid :
        /\ p # q
        /\ bkPc[p] = "spinlabel"
        /\ bkK[p] = bkId[q]
        /\ bkPc[q] = "scan"
        /\ bkLabels[bkId[q]] > 0
        /\ bkLabels[bkId[q]] < bkMyLabel[p]

\* C28: of two participants that have published equal labels, the one with
\* the higher identity holds no guard while the one with the lower identity is
\* still attempting to acquire; and when the higher one obtains the guard the
\* lower one has had its turn: it has obtained and dropped its guard, and is
\* idle or at the start of a later acquire with that label still in place.
BkTieBreak ==
    /\ [](\A p, q \in BkValid :
            (/\ bkId[p] < bkId[q]
             /\ p \in BkWaiting
             /\ bkMyLabel[p] = bkMyLabel[q])
                => bkPc[q] # "held")
    /\ [][\A p, q \in BkValid :
            (/\ bkId[p] < bkId[q]
             /\ bkPc[q] # "held" /\ bkPc'[q] = "held"
             /\ bkLabels[bkId[p]] = bkMyLabel[q])
                => bkPc[p] \in {"idle", "scan", "publish"}]_vars

\* The memory ordering of each access acquire makes to flags and labels, by
\* the position of the participant that makes it.
BkOrdering ==
    [idle      |-> "SeqCst",    \* flags[self.id].store(true, SeqCst)
     scan      |-> "SeqCst",    \* label.load(SeqCst)
     publish   |-> "SeqCst",    \* labels[self.id].store(my_label, SeqCst)
     spinflag  |-> "SeqCst",    \* flags[k].load(SeqCst)
     spinlabel |-> "Relaxed"]   \* labels[k].load(Relaxed)

\* Participant p makes a step of acquire.
BkActs(p) ==
    /\ bkPc[p] \in DOMAIN BkOrdering
    /\ <<bkPc[p], bkK[p], bkMaxLabel[p]>> # <<bkPc'[p], bkK'[p], bkMaxLabel'[p]>>

\* C29: every access acquire makes to the flags and the labels is
\* sequentially consistent.
BkAllSeqCst ==
    [][\A p \in BkP : BkActs(p) => BkOrdering[bkPc[p]] = "SeqCst"]_vars

(***************************************************************************)
(* FilterLock                                                              *)
(***************************************************************************)
\* with_capacity(FlCapacity).  A participant is one FilterRef at a time and
\* the guard obtained with it.
FlCapacity == 4
FlP == 1..FlCapacity
FlIndex == 0..(FlCapacity - 1)
\* No FilterRef is dropped once FlMaxDrops have been.
FlMaxDrops == 1

\* FilterLock::borrow: the identity of the reference handed out when the
\* fetch_sub returned refs_left.
FlBorrowId(refs_left) == refs_left

\* FilterLock::with_capacity followed by FlCapacity successful borrows, the
\* p-th of them by participant p.
FlInit ==
    /\ flLevels = [i \in FlIndex |-> 0]
    /\ flVictims = [i \in FlIndex |-> 0]
    /\ flRefsLeft = 0
    /\ flRef = [p \in FlP |-> "ref"]
    /\ flDrops = 0
    /\ flId = [p \in FlP |-> FlBorrowId(FlCapacity - (p - 1))]
    /\ flI = [p \in FlP |-> 1]
    /\ flK = [p \in FlP |-> 0]
    /\ flPc = [p \in FlP |-> "idle"]

FlFrame == UNCHANGED <<mcsVars, clhVars, toVars, arVars, bkVars, ptVars, tasVars, brVars, atVars, hsVars, boVars, aqVars>>

\* FilterLock::borrow: refs_left.fetch_sub(1, Relaxed) returning a positive
\* count.  With as many participants as the capacity it never returns less;
\* the else branch is the subject of the Borrow section.
FlBorrow(p) ==
    /\ flRef[p] = "none"
    /\ flPc[p] = "idle"
    /\ flRefsLeft > 0
    /\ flRefsLeft' = flRefsLeft - 1
    /\ flRef' = [flRef EXCEPT ![p] = "ref"]
    /\ flId' = [flId EXCEPT ![p] = FlBorrowId(flRefsLeft)]
    /\ UNCHANGED <<flLevels, flVictims, flDrops, flI, flK, flPc>>
    /\ FlFrame

\* FilterRef::drop: refs_left.fetch_add(1, Relaxed).  acquire borrows the
\* reference for the call only, so it is dropped outside acquire, with or
\* without the guard still held (the guard keeps the identity's level), or
\* by the unwinding of a panic.
FlDropRef(p) ==
    /\ flRef[p] = "ref"
    /\ flPc[p] \in {"idle", "held", "panicked"}
    /\ flDrops < FlMaxDrops
    /\ flDrops' = flDrops + 1
    /\ flRefsLeft' = flRefsLeft + 1
    /\ flRef' = [flRef EXCEPT ![p] = "none"]
    /\ flId' = IF flPc[p] = "held" THEN flId ELSE [flId EXCEPT ![p] = -1]
    /\ UNCHANGED <<flLevels, flVictims, flI, flK, flPc>>
    /\ FlFrame

\* acquire: levels[self.id].store(i, Relaxed), for the first level on entry
\* and for the next one after a level's spin.  Indexing with an identity that
\* is no index panics; with capacity 1 the loop is empty.
FlStoreLevel(p) ==
    /\ flPc[p] \in {"idle", "level"}
    /\ flPc[p] = "idle" => flRef[p] = "ref"
    /\ IF flId[p] \notin FlIndex
          THEN /\ flPc' = [flPc EXCEPT ![p] = "panicked"]
               /\ flLevels' = flLevels
          ELSE IF flI[p] < FlCapacity
          THEN /\ flLevels' = [flLevels EXCEPT ![flId[p]] = flI[p]]
               /\ flPc' = [flPc EXCEPT ![p] = "victim"]
          ELSE /\ flLevels' = flLevels
               /\ flPc' = [flPc EXCEPT ![p] = "held"]
    /\ UNCHANGED <<flVictims, flRefsLeft, flRef, flDrops, flId, flI, flK>>
    /\ FlFrame

\* The closure's next k after k, skipping k == self.id.
FlNextK(k, id) ==
    IF k + 1 = id THEN k + 2 ELSE k + 1

FlFirstK(id) == FlNextK(-1, id)

\* The participant's position once the closure has returned false for k: the
\* next k, or the next level once any() has returned false, or the guard.
FlAdvance(p, k) ==
    IF FlNextK(k, flId[p]) < FlCapacity
       THEN /\ flK' = [flK EXCEPT ![p] = FlNextK(k, flId[p])]
            /\ flI' = flI
            /\ flPc' = [flPc EXCEPT ![p] = "spinlevel"]
       ELSE /\ flK' = [flK EXCEPT ![p] = 0]
            /\ IF flI[p] + 1 < FlCapacity
                  THEN /\ flI' = [flI EXCEPT ![p] = @ + 1]
                       /\ flPc' = [flPc EXCEPT ![p] = "level"]
                  ELSE /\ flI' = [flI EXCEPT ![p] = 1]
                       /\ flPc' = [flPc EXCEPT ![p] = "held"]

\* acquire: victims[i].swap(self.id, AcqRel).
FlSwapVictim(p) ==
    /\ flPc[p] = "victim"
    /\ flVictims' = [flVictims EXCEPT ![flI[p]] = flId[p]]
    /\ FlAdvance(p, -1)
    /\ UNCHANGED <<flLevels, flRefsLeft, flRef, flDrops, flId>>
    /\ FlFrame

\* FlBehind as it would be with <= in place of <.
FlBehindOrLevel(level_k, i) == level_k <= i

\* acquire, spin closure: levels[k].load(Acquire) < i, participant k is below
\* level i.
FlBehind(level_k, i) == level_k < i

\* acquire, spin closure: the load of levels[k].
FlSpinLevel(p) ==
    /\ flPc[p] = "spinlevel"
    /\ IF FlBehind(flLevels[flK[p]], flI[p])
          THEN FlAdvance(p, flK[p])
          ELSE /\ flPc' = [flPc EXCEPT ![p] = "spinvictim"]
               /\ UNCHANGED <<flI, flK>>
    /\ UNCHANGED <<flLevels, flVictims, flRefsLeft, flRef, flDrops, flId>>
    /\ FlFrame

\* acquire, spin closure: victims[i].load(Relaxed) == self.id.  When the
\* closure returns true the loop body runs and any() starts again.
FlSpinVictim(p) ==
    /\ flPc[p] = "spinvictim"
    /\ IF flVictims[flI[p]] = flId[p]
          THEN /\ flK' = [flK EXCEPT ![p] = FlFirstK(flId[p])]
               /\ flPc' = [flPc EXCEPT ![p] = "spinlevel"]
               /\ flI' = flI
          ELSE FlAdvance(p, flK[p])
    /\ UNCHANGED <<flLevels, flVictims, flRefsLeft, flRef, flDrops, flId>>
    /\ FlFrame

\* FlRelease as it would be if the drop of the guard left the level in place.
FlReleaseNothing(p) ==
    /\ flPc[p] = "held"
    /\ flPc' = [flPc EXCEPT ![p] = "idle"]
    /\ flId' = IF flRef[p] = "ref" THEN flId ELSE [flId EXCEPT ![p] = -1]
    /\ UNCHANGED <<flLevels, flVictims, flRefsLeft, flRef, flDrops, flI, flK>>
    /\ FlFrame

\* LevelGuard::drop: level.store(0, Release).  The identity goes with the
\* guard when the reference has been dropped before it.
FlRelease(p) ==
    /\ flPc[p] = "held"
    /\ flLevels' = [flLevels EXCEPT ![flId[p]] = 0]
    /\ flPc' = [flPc EXCEPT ![p] = "idle"]
    /\ flId' = IF flRef[p] = "ref" THEN flId ELSE [flId EXCEPT ![p] = -1]
    /\ UNCHANGED <<flVictims, flRefsLeft, flRef, flDrops, flI, flK>>
    /\ FlFrame

FlNext ==
    \E p \in FlP :
        \/ FlBorrow(p)
        \/ FlDropRef(p)
        \/ FlStoreLevel(p)
        \/ FlSwapVictim(p)
        \/ FlSpinLevel(p)
        \/ FlSpinVictim(p)
        \/ FlRelease(p)

\* The identities of the references and guards in use are pairwise distinct.
FlDistinct ==
    \A p, q \in FlP : (p # q /\ flId[p] # -1) => flId[p] # flId[q]

\* The steps of FlNext that keep the identities pairwise distinct: the borrow
\* that would hand out an identity still in use is left out.
FlDistinctNext ==
    \E p \in FlP :
        \/ FlBorrow(p) /\ FlDistinct'
        \/ FlDropRef(p)
        \/ FlStoreLevel(p)
        \/ FlSwapVictim(p)
        \/ FlSpinLevel(p)
        \/ FlSpinVictim(p)
        \/ FlRelease(p)

FlHeld == {p \in FlP : flPc[p] = "held"}
FlValid == {p \in FlP : flId[p] \in FlIndex}

\* C6: among participants with pairwise distinct valid identities, climbing
\* levels 1..N-1, at most one LevelGuard is held at any instant.
FlMutualExclusion ==
    (\A p, q \in FlValid : p # q => flId[p] # flId[q]) => Cardinality(FlHeld) <= 1

\* C6 witness: one participant holds the guard while another, past the first
\* level and the victim of its level, has seen a participant at or above it
\* and spins.
FlVictimAboveFirstLevel ==
    \E p, q \in FlValid :
        /\ p # q
        /\ flPc[p] = "held"
        /\ flPc[q] = "spinvictim"
        /\ flI[q] > 1
        /\ flVictims[flI[q]] = flId[q]

\* The steps of a participant that is inside acquire or holds a guard: the
\* scheduler runs every thread again and again, and every guard is dropped.
\* Calling acquire (the level store from outside acquire) is left to the
\* participant.
FlStep(p) ==
    \/ flPc[p] = "level" /\ FlStoreLevel(p)
    \/ FlSwapVictim(p)
    \/ FlSpinLevel(p)
    \/ FlSpinVictim(p)
    \/ FlRelease(p)

FlFairness == \A p \in FlP : WF_vars(FlStep(p))

FlInAcquire(p) == flPc[p] \in {"level", "victim", "spinlevel", "spinvictim"}

\* C19: FilterLock is starvation-free: among participants of pairwise
\* distinct valid identities, under fair scheduling and with every guard
\* dropped, every acquire call returns a guard, and it does so from the last
\* of the levels 1..N-1.
FlStarvationFree ==
    /\ \A p \in FlP : (flId[p] \in FlIndex /\ FlInAcquire(p)) ~> (flPc[p] = "held")
    /\ [][\A p \in FlP :
            (flPc[p] # "held" /\ flPc'[p] = "held") => flI[p] = FlCapacity - 1]_vars

\* C19 witness: behind the holder one participant spins as the victim of the
\* second level and another as the victim of the first.
FlVictimsAtTwoLevels ==
    \E p, q, r \in FlValid :
        /\ flPc[r] = "held"
        /\ flPc[p] = "spinvictim" /\ flI[p] = 2 /\ flVictims[2] = flId[p]
        /\ flPc[q] = "spinvictim" /\ flI[q] = 1 /\ flVictims[1] = flId[q]

\* The participants that have completed the spin of level l: any() returned
\* false in iteration i = l of the for loop of acquire, so they are in a later
\* iteration or hold the guard.
FlPassed(l) ==
    {p \in FlValid :
        \/ flPc[p] = "held"
        \/ FlInAcquire(p) /\ flI[p] > l}

\* C31: level invariant of FilterLock: for each level L in 1..N-1 at most
\* N-L participants have completed the spin of level L, so at most one has
\* passed level N-1.
FlLevelInvariant ==
    \A l \in 1..(FlCapacity - 1) : Cardinality(FlPassed(l)) <= FlCapacity - l

(* PetersonLock                                                            *)
(***************************************************************************)
\* PetersonLock::capacity.
PtCapacity == 2
PtP == 1..PtCapacity

\* PetersonLock::borrow: the identity of the reference handed out when the
\* fetch_sub returned refs_left.
PtBorrowId(refs_left) == refs_left = 1

\* flags[1] for the identity true, flags[0] for false.
PtFlagOf(id) == IF id THEN 1 ELSE 0

\* PetersonLock::with_capacity(max_threads), which panics above two, followed
\* by two successful borrows in either order of the participants.
PtInit ==
    /\ ptMaxThreads \in 0..PtCapacity
    /\ ptFlags = [i \in 0..1 |-> FALSE]
    /\ ptVictim = FALSE
    /\ ptRefsLeft = 0
    /\ ptId \in {[p \in PtP |-> PtBorrowId(IF p = first THEN 2 ELSE 1)] : first \in PtP}
    /\ ptPc = [p \in PtP |-> "idle"]

PtFrame == UNCHANGED <<mcsVars, clhVars, toVars, arVars, bkVars, flVars, tasVars, brVars, atVars, hsVars, boVars, aqVars>>

\* acquire: my_flag.store(true, Relaxed).
PtSetFlag(p) ==
    /\ ptPc[p] = "idle"
    /\ ptFlags' = [ptFlags EXCEPT ![PtFlagOf(ptId[p])] = TRUE]
    /\ ptPc' = [ptPc EXCEPT ![p] = "swap"]
    /\ UNCHANGED <<ptMaxThreads, ptVictim, ptRefsLeft, ptId>>
    /\ PtFrame

\* acquire: victim.swap(self.id, AcqRel).
PtSwapVictim(p) ==
    /\ ptPc[p] = "swap"
    /\ ptVictim' = ptId[p]
    /\ ptPc' = [ptPc EXCEPT ![p] = "spinflag"]
    /\ UNCHANGED <<ptMaxThreads, ptFlags, ptRefsLeft, ptId>>
    /\ PtFrame

\* acquire, loop condition: other_flag.load(Acquire); when false the && is
\* decided and FlagGuard::new follows.
PtSpinFlag(p) ==
    /\ ptPc[p] = "spinflag"
    /\ ptPc' = [ptPc EXCEPT ![p] =
                  IF ptFlags[PtFlagOf(~ptId[p])] THEN "spinvictim" ELSE "held"]
    /\ UNCHANGED <<ptMaxThreads, ptFlags, ptVictim, ptRefsLeft, ptId>>
    /\ PtFrame

\* PtIsVictim as it would be if the participant never yielded.
PtIsVictimNever(victim, id) == FALSE

\* acquire, loop condition: victim.load(Relaxed) == self.id.
PtIsVictim(victim, id) == victim = id

\* acquire, loop condition: the load of victim; when true the loop runs again.
PtSpinVictim(p) ==
    /\ ptPc[p] = "spinvictim"
    /\ ptPc' = [ptPc EXCEPT ![p] =
                  IF PtIsVictim(ptVictim, ptId[p]) THEN "spinflag" ELSE "held"]
    /\ UNCHANGED <<ptMaxThreads, ptFlags, ptVictim, ptRefsLeft, ptId>>
    /\ PtFrame

\* PtRelease as it would be if the drop of the guard left the flag set.
PtReleaseNothing(p) ==
    /\ ptPc[p] = "held"
    /\ ptPc' = [ptPc EXCEPT ![p] = "idle"]
    /\ UNCHANGED <<ptMaxThreads, ptFlags, ptVictim, ptRefsLeft, ptId>>
    /\ PtFrame

\* FlagGuard::drop: flag.store(false, Release).
PtRelease(p) ==
    /\ ptPc[p] = "held"
    /\ ptFlags' = [ptFlags EXCEPT ![PtFlagOf(ptId[p])] = FALSE]
    /\ ptPc' = [ptPc EXCEPT ![p] = "idle"]
    /\ UNCHANGED <<ptMaxThreads, ptVictim, ptRefsLeft, ptId>>
    /\ PtFrame

PtNext ==
    \E p \in PtP :
        \/ PtSetFlag(p)
        \/ PtSwapVictim(p)
        \/ PtSpinFlag(p)
        \/ PtSpinVictim(p)
        \/ PtRelease(p)

PtHeld == {p \in PtP : ptPc[p] = "held"}

\* C7: used by two participants holding the identities false and true, at
\* most one FlagGuard of the PetersonLock is held at any instant.
PtMutualExclusion ==
    ({ptId[p] : p \in PtP} = BOOLEAN) => Cardinality(PtHeld) <= 1

\* C7 witness: one participant holds the guard while the other, the victim,
\* has seen the holder's flag set and spins.
PtVictimSpins ==
    \E p, q \in PtP :
        /\ ptId[p] # ptId[q]
        /\ ptPc[p] = "held"
        /\ ptPc[q] = "spinvictim"
        /\ ptVictim = ptId[q]

\* The steps of a participant that is inside acquire or holds a guard: the
\* scheduler runs every thread again and again, and every guard is dropped.
\* Calling acquire (PtSetFlag) is left to the participant.
PtStep(p) ==
    \/ PtSwapVictim(p)
    \/ PtSpinFlag(p)
    \/ PtSpinVictim(p)
    \/ PtRelease(p)

PtFairness == \A p \in PtP : WF_vars(PtStep(p))

PtInAcquire(p) == ptPc[p] \in {"swap", "spinflag", "spinvictim"}

\* C18: PetersonLock is starvation-free: with the two participants of
\* identities false and true, under fair scheduling and with every guard
\* dropped, every acquire call returns a guard.
PtStarvationFree ==
    \A p \in PtP : PtInAcquire(p) ~> (ptPc[p] = "held")

\* C18 witness: a participant spins as the victim while the other, having
\* dropped its guard, has set its flag again and is about to make itself the
\* victim.
PtOvertakingAttempt ==
    \E p, q \in PtP :
        /\ ptId[p] # ptId[q]
        /\ ptPc[p] = "spinvictim"
        /\ ptVictim = ptId[p]
        /\ ptPc[q] = "swap"

(***************************************************************************)
(* TasLock, TtasLock, BackoffLock                                          *)
(***************************************************************************)
TasProcs == 3
TasP == 1..TasProcs

\* BackoffLock::new: min_delay and max_delay, in units of the model's clock.
TasMinDelay == 1
TasMaxDelay == 4

\* The values random::<u64>() is drawn from.
RandomU64 == 0..(2 * TasMaxDelay - 1)

\* TasLock::new, TtasLock::new, BackoffLock::new.
TasInit ==
    /\ tasKind \in {"tas", "ttas", "backoff"}
    /\ tasLocked = FALSE
    /\ tasLimit = [p \in TasP |-> 0]
    /\ tasDelay = [p \in TasP |-> 0]
    /\ tasPc = [p \in TasP |-> "idle"]

TasFrame == UNCHANGED <<mcsVars, clhVars, toVars, arVars, bkVars, flVars, ptVars, brVars, atVars, hsVars, boVars, aqVars>>

\* random_duration: random::<u64>() % limit.as_nanos().
RandomDuration(random, limit) == random % limit

\* Backoff::backoff: the limit after the call.
BackoffLimit(limit, max_limit) ==
    IF 2 * limit < max_limit THEN 2 * limit ELSE max_limit

\* acquire, up to its first access of locked: TasLock starts with the swap,
\* TtasLock and BackoffLock with try_acquire's load; BackoffLock first
\* builds Backoff::new(min_delay, max_delay).
TasBegin(p) ==
    /\ tasPc[p] = "idle"
    /\ tasPc' = [tasPc EXCEPT ![p] = IF tasKind = "tas" THEN "swap" ELSE "load"]
    /\ tasLimit' = [tasLimit EXCEPT ![p] = IF tasKind = "backoff" THEN TasMinDelay ELSE 0]
    /\ UNCHANGED <<tasKind, tasLocked, tasDelay>>
    /\ TasFrame

\* TtasLock::try_acquire: while self.locked.load(Relaxed) { } ends with a
\* load that returns false.
TasLoad(p) ==
    /\ tasPc[p] = "load"
    /\ ~tasLocked
    /\ tasPc' = [tasPc EXCEPT ![p] = "swap"]
    /\ UNCHANGED <<tasKind, tasLocked, tasLimit, tasDelay>>
    /\ TasFrame

\* TasSwapResult as it would be if the swap always reported true.
TasSwapResultTrue(locked) == TRUE

\* TasSwapResult as it would be if the swap always reported false.
TasSwapResultFalse(locked) == FALSE

\* locked.swap(true, Acquire): the value returned.
TasSwapResult(locked) == locked

\* locked.swap(true, Acquire) and what follows it: TasGuard::new when it
\* returned false; otherwise TasLock swaps again, TtasLock calls try_acquire
\* again, BackoffLock calls backoff(), which draws the delay, doubles the
\* limit and sleeps.
TasSwap(p) ==
    /\ tasPc[p] = "swap"
    /\ tasLocked' = TRUE
    /\ IF ~TasSwapResult(tasLocked)
          THEN /\ tasPc' = [tasPc EXCEPT ![p] = "held"]
               /\ UNCHANGED <<tasLimit, tasDelay>>
          ELSE CASE tasKind = "tas" ->
                      UNCHANGED <<tasPc, tasLimit, tasDelay>>
                 [] tasKind = "ttas" ->
                      /\ tasPc' = [tasPc EXCEPT ![p] = "load"]
                      /\ UNCHANGED <<tasLimit, tasDelay>>
                 [] tasKind = "backoff" ->
                      \E random \in RandomU64 :
                          /\ tasDelay' = [tasDelay EXCEPT ![p] =
                                             RandomDuration(random, tasLimit[p])]
                          /\ tasLimit' = [tasLimit EXCEPT ![p] =
                                             BackoffLimit(tasLimit[p], TasMaxDelay)]
                          /\ tasPc' = [tasPc EXCEPT ![p] = "sleep"]
    /\ UNCHANGED tasKind
    /\ TasFrame

\* Backoff::backoff: sleep(delay), one unit of the clock at a time; after it
\* BackoffLock::acquire calls try_acquire again.
TasSleep(p) ==
    /\ tasPc[p] = "sleep"
    /\ IF tasDelay[p] > 0
          THEN /\ tasDelay' = [tasDelay EXCEPT ![p] = @ - 1]
               /\ tasPc' = tasPc
          ELSE /\ tasDelay' = tasDelay
               /\ tasPc' = [tasPc EXCEPT ![p] = "load"]
    /\ UNCHANGED <<tasKind, tasLocked, tasLimit>>
    /\ TasFrame

\* TasGuard::drop: locked.store(false, Release).
TasRelease(p) ==
    /\ tasPc[p] = "held"
    /\ tasLocked' = FALSE
    /\ tasPc' = [tasPc EXCEPT ![p] = "idle"]
    /\ tasLimit' = [tasLimit EXCEPT ![p] = 0]
    /\ UNCHANGED <<tasKind, tasDelay>>
    /\ TasFrame

TasNext ==
    \E p \in TasP :
        \/ TasBegin(p)
        \/ TasLoad(p)
        \/ TasSwap(p)
        \/ TasSleep(p)
        \/ TasRelease(p)

TasHeld == {p \in TasP : tasPc[p] = "held"}

\* C8: on a TasLock, TtasLock or BackoffLock at most one TasGuard is held at
\* any instant, whatever delays backoff() draws, and a participant comes to
\* hold the guard only through a swap to true that found locked false.
TasMutualExclusion ==
    /\ [](Cardinality(TasHeld) <= 1)
    /\ [][\A p \in TasP :
            (tasPc[p] # "held" /\ tasPc'[p] = "held")
                => (tasPc[p] = "swap" /\ ~tasLocked /\ tasLocked')]_vars

\* C8 witness: on a BackoffLock one participant holds the guard, a second
\* sleeps a non-zero delay after a failed swap, and a third, having loaded
\* locked as false before the holder's swap, is about to swap.
TasContendedBackoff ==
    \E p, q, r \in TasP :
        /\ tasKind = "backoff"
        /\ tasPc[p] = "held"
        /\ tasPc[q] = "sleep" /\ tasDelay[q] > 0
        /\ tasPc[r] = "swap"

\* The steps of a participant that is inside acquire or holds a guard: the
\* scheduler runs every thread again and again, and every guard is dropped.
\* Calling acquire is left to the participant.
TasStep(p) ==
    \/ TasLoad(p)
    \/ TasSwap(p)
    \/ TasSleep(p)
    \/ TasRelease(p)

TasFairness == \A p \in TasP : WF_vars(TasStep(p))

TasInAcquire(p) == tasPc[p] \in {"load", "swap", "sleep"}

\* C36: TasLock and TtasLock are deadlock-free: under fair scheduling,
\* whenever the lock is free and some participant is inside acquire, some
\* participant eventually obtains the guard; and a TtasLock participant comes
\* to its swap to true only from a load that returned false, and goes back to
\* the load after a swap that failed.
TasDeadlockFree ==
    /\ (~tasLocked /\ \E p \in TasP : TasInAcquire(p)) ~> (TasHeld # {})
    /\ [][\A p \in TasP :
            (tasKind = "ttas" /\ tasPc[p] # "swap" /\ tasPc'[p] = "swap")
                => (tasPc[p] = "load" /\ ~tasLocked)]_vars
    /\ [][\A p \in TasP :
            (tasKind = "ttas" /\ tasPc[p] = "swap" /\ tasPc'[p] # "swap")
                => IF tasLocked THEN tasPc'[p] = "load" ELSE tasPc'[p] = "held"]_vars

\* C36 witness: on a free TtasLock two participants have both loaded false and
\* are about to swap, while a third is at its load.
TasRaceAfterLoad ==
    \E p, q, r \in TasP :
        /\ tasKind = "ttas"
        /\ ~tasLocked
        /\ p # q
        /\ tasPc[p] = "swap" /\ tasPc[q] = "swap"
        /\ tasPc[r] = "load"

(***************************************************************************)
(* Bounded locks: borrow and the drop of a reference                       *)
(***************************************************************************)
BrProcs == 3
BrP == 1..BrProcs

\* The largest max_threads given to with_capacity.
BrMaxThreads == 2

BrKinds == {"peterson", "filter", "bakery", "array"}

\* with_capacity: the initial refs_left.  PetersonLock stores 2 whatever
\* max_threads is; the others store max_threads.
BrWithCapacity(kind, max_threads) ==
    IF kind = "peterson" THEN 2 ELSE max_threads

\* BoundedLock::capacity: 2 for PetersonLock, flags.len() or levels.len()
\* for the others; ArrayLock::with_capacity always pushes a first flag.
BrCapacity ==
    CASE brKind = "peterson" -> PtCapacity
      [] brKind = "array" -> IF brMaxThreads = 0 THEN 1 ELSE brMaxThreads
      [] OTHER -> brMaxThreads

\* The id field of a reference built when fetch_sub returned refs_left;
\* an ArrayRef has none.
BrBorrowId(kind, refs_left) ==
    CASE kind = "peterson" -> PtBorrowId(refs_left)
      [] kind = "filter" -> FlBorrowId(refs_left)
      [] kind = "bakery" -> BkBorrowId(refs_left)
      [] OTHER -> None

\* The id recorded for a participant that holds no reference.
BrNoId(kind) == IF kind = "peterson" THEN FALSE ELSE None

\* with_capacity(max_threads); PetersonLock::with_capacity panics above 2.
BrInit ==
    /\ brKind \in BrKinds
    /\ brMaxThreads \in 0..BrMaxThreads
    /\ brKind = "peterson" => brMaxThreads <= PtCapacity
    /\ brRefsLeft = BrWithCapacity(brKind, brMaxThreads)
    /\ brId = [p \in BrP |-> BrNoId(brKind)]
    /\ brResult = [p \in BrP |-> "none"]
    /\ brFreed = FALSE
    /\ brPc = [p \in BrP |-> "none"]

BrFrame == UNCHANGED <<mcsVars, clhVars, toVars, arVars, bkVars, flVars, ptVars, tasVars, atVars, hsVars, boVars, aqVars>>

BrOutstanding == Cardinality({p \in BrP : brPc[p] = "ref"})

\* BrHasRoom as it would be with >= in place of >.
BrHasRoomOrZero(refs_left) == refs_left >= 0

\* borrow: the test refs_left > 0 on the value fetch_sub returned.
BrHasRoom(refs_left) == refs_left > 0

\* BoundedLock::refs_left: the counter, a negative value read as 0.
BrRefsLeft == IF brRefsLeft < 0 THEN 0 ELSE brRefsLeft

\* The borrows that are between their fetch_sub and their fetch_add.
BrInProgress == Cardinality({p \in BrP : brPc[p] = "restore"})

\* borrow: refs_left.fetch_sub(1, Relaxed) and the branch on the value it
\* returned: Ok with the reference, or on to the restoring fetch_add.
BrBorrow(p) ==
    /\ brPc[p] = "none"
    /\ brRefsLeft' = brRefsLeft - 1
    /\ IF BrHasRoom(brRefsLeft)
          THEN /\ brId' = [brId EXCEPT ![p] = BrBorrowId(brKind, brRefsLeft)]
               /\ brResult' = [brResult EXCEPT ![p] = "Ok"]
               /\ brPc' = [brPc EXCEPT ![p] = "ref"]
               /\ brFreed' = FALSE
          ELSE /\ brPc' = [brPc EXCEPT ![p] = "restore"]
               /\ UNCHANGED <<brId, brResult, brFreed>>
    /\ UNCHANGED <<brKind, brMaxThreads>>
    /\ BrFrame

\* borrow, else branch: refs_left.fetch_add(1, Relaxed), then
\* Err(ThreadCapacityExceeded).
BrRestore(p) ==
    /\ brPc[p] = "restore"
    /\ brRefsLeft' = brRefsLeft + 1
    /\ brResult' = [brResult EXCEPT ![p] = "ThreadCapacityExceeded"]
    /\ brPc' = [brPc EXCEPT ![p] = "none"]
    /\ UNCHANGED <<brKind, brMaxThreads, brId, brFreed>>
    /\ BrFrame

\* Drop of PetersonRef, FilterRef, BakeryRef, ArrayRef:
\* refs_left.fetch_add(1, Relaxed).
BrDrop(p) ==
    /\ brPc[p] = "ref"
    /\ brRefsLeft' = brRefsLeft + 1
    /\ brId' = [brId EXCEPT ![p] = BrNoId(brKind)]
    /\ brPc' = [brPc EXCEPT ![p] = "none"]
    /\ brFreed' = (brFreed \/ BrOutstanding = BrCapacity)
    /\ UNCHANGED <<brKind, brMaxThreads, brResult>>
    /\ BrFrame

BrNext ==
    \E p \in BrP :
        \/ BrBorrow(p)
        \/ BrRestore(p)
        \/ BrDrop(p)

\* C9: on a bounded lock built by with_capacity(K), a borrow whose decrement
\* happens while K references are outstanding takes the failing branch and
\* hands out no reference.
BrCapacityExceeded ==
    [][\A p \in BrP :
          (brPc[p] = "none" /\ brPc'[p] # "none" /\ BrOutstanding = brMaxThreads)
              => (brPc'[p] = "restore" /\ brId'[p] = brId[p])]_vars

\* C10: once a reference has been dropped from a full lock and no borrow has
\* succeeded since, a borrow that starts then succeeds, whatever failing
\* borrows are in progress.
BrBorrowAfterDrop ==
    [][\A p \in BrP :
          (brPc[p] = "none" /\ brPc'[p] # "none" /\ brFreed)
              => brPc'[p] = "ref"]_vars

\* C11: a failed borrow leaves the lock unchanged: the counter is its initial
\* value less the outstanding references and the borrows in progress, so that
\* a completed failing borrow has given back what it took; the failing branch
\* and its restoring increment change no identity; and whenever no borrow is
\* in progress refs_left() is capacity() minus the outstanding references.
BrFailedBorrowUnchanged ==
    /\ [](brRefsLeft = BrWithCapacity(brKind, brMaxThreads) - BrOutstanding - BrInProgress)
    /\ [](BrInProgress = 0 => BrRefsLeft = BrCapacity - BrOutstanding)
    /\ [][\A p \in BrP :
            (brPc'[p] # brPc[p] /\ "restore" \in {brPc[p], brPc'[p]})
                => brId' = brId]_vars

\* C12: the outstanding references never exceed capacity(), also while the
\* counter is negative because of failing borrows in progress.
BrWithinCapacity == BrOutstanding <= BrCapacity

\* C12 witness: the lock is full and a failing borrow in progress has driven
\* the counter below zero.
BrFullAndNegative ==
    /\ BrCapacity > 0
    /\ BrOutstanding = BrCapacity
    /\ brRefsLeft < 0

\* C33: on a Peterson, Filter or Bakery lock, after every sequence of borrows
\* and reference drops, the identities of the outstanding references are
\* pairwise distinct and each indexes the lock's per-participant arrays
\* (0 <= id < capacity, a boolean for PetersonLock).
BrIdentities ==
    brKind # "array" =>
        \A p \in BrP : brPc[p] = "ref" =>
            /\ IF brKind = "peterson"
                  THEN brId[p] \in BOOLEAN
                  ELSE brId[p] \in 0..(BrCapacity - 1)
            /\ \A q \in BrP \ {p} : brPc[q] = "ref" => brId[q] # brId[p]

(***************************************************************************)
(* Atomic<T>                                                               *)
(***************************************************************************)
AtProcs == 2
AtP == 1..AtProcs
\* The owned values (Box allocations) that are ever created, and how often one
\* value is put into the cell.
AtValues == 2
AtV == 1..AtValues
AtMaxInstalls == 2

AtOp(who, op, new, current, ok, ret) ==
    [who |-> who, op |-> op, new |-> new, current |-> current,
     ok |-> ok, ret |-> ret, seq |-> 1 - atLast.seq]

\* Atomic::new(t) with a first value, for a T that owns its value (Box and
\* the like) or for a T: Copy, whose values (0..AtValues) belong to nobody.
AtInit ==
    /\ atCell = 1
    /\ atCopy \in BOOLEAN
    /\ atAlive = TRUE
    /\ atBorn = (IF atCopy THEN AtValues ELSE 1)
    /\ atHeld = [p \in AtP |-> {}]
    /\ atDisposed = [v \in AtV |-> 0]
    /\ atInstalled = [v \in AtV |-> IF ~atCopy /\ v = 1 THEN 1 ELSE 0]
    /\ atReturned = [v \in AtV |-> 0]
    /\ atLast = [who |-> None, op |-> "new", new |-> 1, current |-> None,
                 ok |-> TRUE, ret |-> None, seq |-> 0]

AtFrame == UNCHANGED <<mcsVars, clhVars, toVars, arVars, bkVars, flVars, ptVars, tasVars, brVars, hsVars, boVars, aqVars>>

\* The values a caller can pass as `new`: one it owns, None, or a new
\* allocation; any value when T: Copy.
AtNew(p) ==
    IF atCopy
       THEN 0..AtValues
       ELSE {v \in atHeld[p] : atInstalled[v] < AtMaxInstalls} \cup {None}
                \cup (IF atBorn < AtValues THEN {atBorn + 1} ELSE {})

\* The identities a caller can pass as `current`: the one the cell holds, and
\* one it does not hold (another allocation, or null).
AtCurrent == {atCell, (atCell + 1) % (atBorn + 1)}

\* One more of the owned value v; None and the values of a T: Copy own nothing.
AtCount(count, v) ==
    IF atCopy \/ v = None THEN count ELSE [count EXCEPT ![v] = @ + 1]

\* Raw::into_raw(new) (the caller gives `new` up), the atomic operation, and
\* Raw::from_raw(ret) (the caller owns what the operation returned).
AtTransfer(p, new, ret) ==
    IF atCopy
       THEN UNCHANGED <<atHeld, atBorn>>
       ELSE /\ atHeld' = [atHeld EXCEPT ![p] = (@ \ {new}) \cup ({ret} \ {None})]
            /\ atBorn' = IF new = atBorn + 1 THEN new ELSE atBorn

\* AtSwapResult as it would be if swap returned the value passed in.
AtSwapResultNew(old, new) == new

\* swap_atomic: AtomicPtr::swap returns the previous content.
AtSwapResult(old, new) == old

AtSwapAs(p, op, new) ==
    /\ atAlive
    /\ LET ret == AtSwapResult(atCell, new)
       IN  /\ atCell' = new
           /\ AtTransfer(p, new, ret)
           /\ atInstalled' = AtCount(atInstalled, new)
           /\ atReturned' = AtCount(atReturned, ret)
           /\ atLast' = AtOp(p, op, new, None, TRUE, ret)
    /\ UNCHANGED <<atCopy, atAlive, atDisposed>>
    /\ AtFrame

\* Atomic::swap(t, order).
AtSwap(p, new) == (atCopy \/ new # None) /\ AtSwapAs(p, "swap", new)

\* Atomic<Option<T>>::take(order) is swap(None, order); no Option<T> that can
\* be put into the cell is Copy.
AtTake(p) == ~atCopy /\ AtSwapAs(p, "take", None)

\* AtCasFailure as it would be if the failed exchange returned the cell's
\* content, as AtomicPtr::compare_exchange does.
AtCasFailureOld(old, new) == old

\* compare_swap_strong / compare_swap_weak: Err(_) => Err(self).
AtCasFailure(old, new) == new

\* Atomic::compare_swap_strong / compare_swap_weak(current, new, order):
\* compare_exchange succeeds when the cell holds `current`; the weak form may
\* fail although it does (spurious).
AtCompareSwap(p, current, new, weak, spurious) ==
    /\ atAlive
    /\ spurious => (weak /\ atCell = current)
    /\ LET success == atCell = current /\ ~spurious
           ret == IF success THEN atCell ELSE AtCasFailure(atCell, new)
       IN  /\ atCell' = IF success THEN new ELSE atCell
           /\ AtTransfer(p, new, ret)
           /\ atInstalled' = IF success THEN AtCount(atInstalled, new) ELSE atInstalled
           /\ atReturned' = IF success THEN AtCount(atReturned, atCell) ELSE atReturned
           /\ atLast' = AtOp(p, IF weak THEN "compare_swap_weak" ELSE "compare_swap_strong",
                             new, current, success, ret)
    /\ UNCHANGED <<atCopy, atAlive, atDisposed>>
    /\ AtFrame

AtCompareSwapStrong(p, current, new) == AtCompareSwap(p, current, new, FALSE, FALSE)

AtCompareSwapWeak(p, current, new, spurious) == AtCompareSwap(p, current, new, TRUE, spurious)

\* A caller drops a value it owns.
AtDropValue(p, v) ==
    /\ v \in atHeld[p]
    /\ atHeld' = [atHeld EXCEPT ![p] = @ \ {v}]
    /\ atDisposed' = AtCount(atDisposed, v)
    /\ atLast' = AtOp(p, "drop_value", None, None, TRUE, None)
    /\ UNCHANGED <<atCell, atCopy, atAlive, atBorn, atInstalled, atReturned>>
    /\ AtFrame

\* AtForget as it would be if into_inner let the cell's destructor run.
AtForgetNot(disposed, v) == AtCount(disposed, v)

\* mem::forget(self) in into_inner: <Atomic as Drop>::drop does not run.
AtForget(disposed, v) == disposed

\* Atomic::into_inner: get_atomic, mem::forget(self), the value is returned.
AtIntoInner(p) ==
    /\ atAlive
    /\ atAlive' = FALSE
    /\ atHeld' = IF atCopy THEN atHeld
                  ELSE [atHeld EXCEPT ![p] = @ \cup ({atCell} \ {None})]
    /\ atDisposed' = AtForget(atDisposed, atCell)
    /\ atLast' = AtOp(p, "into_inner", None, None, TRUE, atCell)
    /\ UNCHANGED <<atCell, atCopy, atBorn, atInstalled, atReturned>>
    /\ AtFrame

\* <Atomic as Drop>::drop: drop(T::get_atomic(&mut self.0)).
AtDrop(p) ==
    /\ atAlive
    /\ atAlive' = FALSE
    /\ atDisposed' = AtCount(atDisposed, atCell)
    /\ atLast' = AtOp(p, "drop", None, None, TRUE, None)
    /\ UNCHANGED <<atCell, atCopy, atBorn, atHeld, atInstalled, atReturned>>
    /\ AtFrame

\* Atomic<T: Copy>::load(order): a copy of the content.
AtLoad(p) ==
    /\ atAlive
    /\ atCopy
    /\ atLast' = AtOp(p, "load", None, None, TRUE, atCell)
    /\ UNCHANGED <<atCell, atCopy, atAlive, atBorn, atHeld, atDisposed, atInstalled, atReturned>>
    /\ AtFrame

\* Atomic<T: Copy>::store(t, order): the content is overwritten and returned
\* to nobody.
AtStore(p, new) ==
    /\ atAlive
    /\ atCopy
    /\ atCell' = new
    /\ atLast' = AtOp(p, "store", new, None, TRUE, None)
    /\ UNCHANGED <<atCopy, atAlive, atBorn, atHeld, atDisposed, atInstalled, atReturned>>
    /\ AtFrame

AtNext ==
    \E p \in AtP :
        \/ \E new \in AtNew(p) : AtSwap(p, new)
        \/ AtTake(p)
        \/ \E current \in AtCurrent : \E new \in AtNew(p) :
              AtCompareSwapStrong(p, current, new)
        \/ \E current \in AtCurrent : \E new \in AtNew(p) : \E spurious \in BOOLEAN :
              AtCompareSwapWeak(p, current, new, spurious)
        \/ \E v \in AtV : AtDropValue(p, v)
        \/ AtIntoInner(p)
        \/ AtDrop(p)
        \/ AtLoad(p)
        \/ \E new \in AtNew(p) : AtStore(p, new)

\* The parties that own value v: the cell, or a caller.
AtOwners(v) ==
    (IF atAlive /\ atCell = v THEN {None} ELSE {}) \cup {p \in AtP : v \in atHeld[p]}

\* The step is an operation of the kinds ops.
AtDid(ops) == atLast' # atLast /\ atLast'.op \in ops

\* C23: swap (and take) returns what the cell held immediately before it and
\* leaves the value passed in in the cell; an owned value passed in is never
\* the one returned; and every owned value has been handed out of the cell
\* exactly as often as it was put in, less the once it is the cell's content.
\* (The values of a T: Copy are owned by nobody: a swap can pass in the very
\* number the cell holds, and store overwrites without returning.)
AtSwapReturnsPrevious ==
    /\ [][AtDid({"swap", "take"}) =>
            /\ atLast'.ret = atCell
            /\ atCell' = atLast'.new
            /\ (~atCopy /\ atLast'.new # None) => atLast'.ret # atLast'.new]_vars
    /\ [](~atCopy => \A v \in AtV :
            atInstalled[v] = atReturned[v] + (IF atCell = v THEN 1 ELSE 0))

\* C23 witness: a swap has put a value into the cell for the second time and
\* returned the value another swap had put there in between.
AtSwappedAcrossCallers ==
    /\ ~atCopy
    /\ atLast.op = "swap"
    /\ atLast.new # None
    /\ atLast.ret # None
    /\ atLast.ret # atLast.new
    /\ atInstalled[atLast.new] = AtMaxInstalls
    /\ atReturned[atLast.ret] = 1
    /\ atLast.ret \in atHeld[atLast.who]

\* C24: compare_swap_strong succeeds exactly when the cell holds `current`; a
\* successful compare_swap (strong or weak) leaves `new` in the cell and
\* returns the displaced value, which is `current`; a failed one leaves the
\* cell as it was and returns `new`; compare_swap_weak succeeds only when the
\* cell holds `current`.
AtCompareSwapContract ==
    [][AtDid({"compare_swap_strong", "compare_swap_weak"}) =>
        /\ atLast'.ok => /\ atCell = atLast'.current
                         /\ atCell' = atLast'.new
                         /\ atLast'.ret = atCell
        /\ ~atLast'.ok => /\ atCell' = atCell
                          /\ atLast'.ret = atLast'.new
                          /\ (~atCopy /\ atLast'.new # None) =>
                                 atLast'.new \in atHeld'[atLast'.who]
        /\ atLast'.op = "compare_swap_strong" => (atLast'.ok <=> atCell = atLast'.current)]_vars

\* C24 witness: a compare_swap_weak has failed although the cell held
\* `current`, and its caller still owns the value it tried to install.
AtWeakFailedOnMatch ==
    /\ atLast.op = "compare_swap_weak"
    /\ ~atLast.ok
    /\ atLast.new # None
    /\ atLast.new \in atHeld[atLast.who]
    /\ atCell = atLast.current

\* C25: every allocated value of an owning T has exactly one owner until it is
\* disposed, and is disposed at most once and only by its owner: the cell's
\* drop disposes the value the cell holds and nothing else, into_inner
\* disposes nothing and leaves the held value with the caller.
AtExactlyOnce ==
    /\ [](~atCopy => \A v \in AtV :
            Cardinality(AtOwners(v)) + atDisposed[v] = (IF v <= atBorn THEN 1 ELSE 0))
    /\ [][AtDid({"drop"}) =>
            /\ atDisposed' = AtCount(atDisposed, atCell)
            /\ atHeld' = atHeld]_vars
    /\ [][AtDid({"into_inner"}) =>
            /\ atDisposed' = atDisposed
            /\ atLast'.ret = atCell
            /\ (~atCopy /\ atCell # None) => atCell \in atHeld'[atLast'.who]]_vars

\* C25 witness: into_inner has handed the held value to its caller after other
\* values went through swap and were disposed by the callers that got them.
AtIntoInnerAfterSwaps ==
    /\ atLast.op = "into_inner"
    /\ atLast.ret \in atHeld[atLast.who]
    /\ atLast.ret # 1
    /\ atDisposed[atLast.ret] = 0
    /\ \E v \in AtV : atDisposed[v] = 1

(***************************************************************************)
(* AcquireBox / ReleasePtr and Wait / Notify                               *)
(***************************************************************************)
\* The writes a notifier makes to the payload through deref_mut.
HsMaxWrites == 2

\* Before AcquireBox::new / acquired (Wait::with / already_notified_with).
HsInit ==
    /\ hsAlloc = "none"
    /\ hsFlag = FALSE
    /\ hsT = 0
    /\ hsNotifier = "none"
    /\ hsWaiter = "none"
    /\ hsLast = [op |-> "none", ok |-> FALSE, t |-> 0, seq |-> 0]

HsFrame == UNCHANGED <<mcsVars, clhVars, toVars, arVars, bkVars, flVars, ptVars, tasVars, brVars, atVars, boVars, aqVars>>

\* AcquireBox::new(t) / Wait::with(t): flag false, a notifier is handed out.
HsNew ==
    /\ hsAlloc = "none"
    /\ hsAlloc' = "live"
    /\ hsFlag' = FALSE
    /\ hsNotifier' = "live"
    /\ hsWaiter' = "live"
    /\ UNCHANGED <<hsT, hsLast>>
    /\ HsFrame

\* AcquireBox::acquired(t) / Wait::already_notified_with(t): flag true, no notifier.
HsAcquired ==
    /\ hsAlloc = "none"
    /\ hsAlloc' = "live"
    /\ hsFlag' = TRUE
    /\ hsWaiter' = "live"
    /\ UNCHANGED <<hsT, hsNotifier, hsLast>>
    /\ HsFrame

\* <ReleasePtr as DerefMut>::deref_mut / <Notify as DerefMut>::deref_mut: a write
\* to the payload through the notifier's pointer.
HsWrite ==
    /\ hsNotifier = "live"
    /\ hsT < HsMaxWrites
    /\ hsT' = hsT + 1
    /\ UNCHANGED <<hsAlloc, hsFlag, hsNotifier, hsWaiter, hsLast>>
    /\ HsFrame

\* ReleasePtr::drop / Notify::drop: flag.store(true, Release).
HsNotify ==
    /\ hsNotifier = "live"
    /\ hsFlag' = TRUE
    /\ hsNotifier' = "dropped"
    /\ UNCHANGED <<hsAlloc, hsT, hsWaiter, hsLast>>
    /\ HsFrame

\* The orderings of the flag store and of the flag loads.
HsStoreOrder == "Release"
HsLoadOrder == "Acquire"

\* A load that reads the value of a store synchronizes with it.
Synchronizes(store, load) ==
    /\ store \in {"Release", "AcqRel", "SeqCst"}
    /\ load \in {"Acquire", "AcqRel", "SeqCst"}

\* The payload values the waiting side can read after its flag load: with no
\* synchronization any of the notifier's writes may be missing.
HsVisible == IF Synchronizes(HsStoreOrder, HsLoadOrder) THEN {hsT} ELSE 0..hsT

HsTryOps == {"try_as_ref", "try_as_mut", "try_wait", "try_wait_mut"}
HsBlockingOps == {"as_ref", "as_mut", "wait", "wait_mut"}

HsOp(op, ok, t) == [op |-> op, ok |-> ok, t |-> t, seq |-> 1 - hsLast.seq]

\* TransferableTryAcquire as it would be if the flag were not consulted.
TransferableTryAcquireAlways(flag) == TRUE

\* Transferable::try_acquire: flag.load(Acquire).
TransferableTryAcquire(flag) == flag

\* AcquireBox::try_as_ref / try_as_mut, Wait::try_wait / try_wait_mut.
HsTry(op, t) ==
    /\ hsWaiter = "live"
    /\ hsLast' = IF TransferableTryAcquire(hsFlag) THEN HsOp(op, TRUE, t)
                                                  ELSE HsOp(op, FALSE, 0)
    /\ UNCHANGED <<hsAlloc, hsFlag, hsT, hsNotifier, hsWaiter>>
    /\ HsFrame

\* AcquireBox::as_ref / as_mut, Wait::wait / wait_mut: spin until the flag is
\* set, then the payload.
HsWait(op, t) ==
    /\ hsWaiter = "live"
    /\ TransferableAcquired(hsFlag)
    /\ hsLast' = HsOp(op, TRUE, t)
    /\ UNCHANGED <<hsAlloc, hsFlag, hsT, hsNotifier, hsWaiter>>
    /\ HsFrame

\* AcquireBox::reset / Wait::wait_reset: spin until the flag is set, clear it
\* and hand out a new notifier.
HsReset ==
    /\ hsWaiter = "live"
    /\ TransferableAcquired(hsFlag)
    /\ hsFlag' = FALSE
    /\ hsNotifier' = "live"
    /\ hsLast' = HsOp("reset", TRUE, 0)
    /\ UNCHANGED <<hsAlloc, hsT, hsWaiter>>
    /\ HsFrame

\* AcquireBox::drop / Wait::drop: spin until the flag is set; then the Box is
\* deallocated.
HsDrop ==
    /\ hsWaiter = "live"
    /\ TransferableAcquired(hsFlag)
    /\ hsWaiter' = "dropped"
    /\ hsAlloc' = "freed"
    /\ hsLast' = HsOp("drop", TRUE, 0)
    /\ UNCHANGED <<hsFlag, hsT, hsNotifier>>
    /\ HsFrame

HsNext ==
    \/ HsNew
    \/ HsAcquired
    \/ HsWrite
    \/ HsNotify
    \/ \E op \in HsTryOps : \E t \in HsVisible : HsTry(op, t)
    \/ \E op \in HsBlockingOps : \E t \in HsVisible : HsWait(op, t)
    \/ HsReset
    \/ HsDrop

\* One handshake, or one lock built from handshakes, at a time.
HandshakeNext ==
    \/ HsNext /\ ClhInit /\ McsInit
    \/ ClhNext /\ HsInit /\ McsInit
    \/ McsNext /\ HsInit /\ ClhInit

\* The step is an accessor call of the waiting side.
HsDid(ops) == hsLast' # hsLast /\ hsLast'.op \in ops

\* C26: an accessor of the waiting side returns the payload only when no
\* notifier is live (the paired notifier has been dropped, or the waiting side
\* was created already notified); while the notifier is live the non-blocking
\* accessors return the not-ready result and the blocking ones do not return;
\* and the payload it returns carries every write the notifier made.
HsPayloadAfterNotify ==
    /\ [][HsDid(HsTryOps \cup HsBlockingOps) =>
            /\ hsLast'.ok => (hsNotifier # "live" /\ hsLast'.t = hsT)
            /\ hsNotifier = "live" => (~hsLast'.ok /\ hsLast'.op \in HsTryOps)]_vars
    /\ [](hsAlloc = "live" => (hsFlag <=> hsNotifier # "live"))

\* C26 witness: the notifier wrote to the payload twice and was dropped, and a
\* non-blocking accessor that had returned not-ready before now returns it.
HsReadAfterWrites ==
    /\ hsLast.op \in HsTryOps
    /\ hsLast.ok
    /\ hsLast.t = HsMaxWrites
    /\ hsNotifier = "dropped"
    /\ hsLast.seq = 0

\* The nodes of ClhLock that a live ReleasePtr points to.
ClhNotifiers == {clhRelease[p] : p \in ClhP} \ {None}

\* The nodes of McsLock that a live ReleasePtr points to: the tail, a
\* successor's `release`, the result of the releaser's compare-and-swap, the
\* payload of a node and the ReleasePtr taken out of it.
McsNotifiers ==
    {<<"n", p>> : p \in {mcsTail} \ {None}}
        \cup {<<"n", mcsRelease[q]>> : q \in {q \in McsP : mcsPc[q] \in {"link", "notify"}}}
        \cup {<<"n", p>> : p \in {p \in McsP : mcsPc[p] = "casdrop"}}
        \cup {<<"i", mcsNext[p]>> : p \in {p \in McsP : mcsNext[p] # None}}
        \cup {<<"i", mcsRelease[p]>> : p \in {p \in McsP : mcsPc[p] = "wake"}}

\* C27: the waiting side's drop frees the allocation only once the notifier
\* has been dropped: no live notifier points to a freed allocation, neither in
\* the handshake alone nor among the nodes of ClhLock and McsLock, and at the
\* step that frees a node no notifier to it is left.
HsFreedAfterNotifier ==
    /\ [](hsNotifier = "live" => hsAlloc = "live")
    /\ [][hsAlloc' = "freed" /\ hsAlloc = "live" => (hsFlag /\ hsNotifier # "live")]_vars
    /\ [](ClhNotifiers \subseteq clhLive)
    /\ [][\A n \in clhLive \ clhLive' : clhFlag[n] /\ n \notin ClhNotifiers]_vars
    /\ [](McsNotifiers \subseteq mcsLive)
    /\ [][\A n \in mcsLive \ mcsLive' :
            /\ n \notin McsNotifiers \cup McsNotifiers'
            /\ IF n[1] = "n" THEN mcsFlag[n[2]] ELSE mcsInnerFlag[n[2]]]_vars

\* C27 witness: in McsLock a releaser whose compare-and-swap failed is held up
\* by the flag of its own node, to which the successor still has a ReleasePtr
\* after storing its inner notifier in it.
McsDropAwaitsNotifier ==
    \E p, q \in McsP :
        /\ mcsPc[p] = "wait"
        /\ ~mcsFlag[p]
        /\ mcsPc[q] = "notify"
        /\ mcsRelease[q] = p
        /\ mcsNext[p] = q

(***************************************************************************)
(* Backoff                                                                 *)
(***************************************************************************)
\* The durations given to Backoff::new, in nanoseconds.
BoMaxNanos == 8
BoNanos == 0..BoMaxNanos

\* Before Backoff::new.
BoInit ==
    /\ boPc = "none"
    /\ boLimit = 0
    /\ boMaxLimit = 0
    /\ boDelay = 0

BoFrame == UNCHANGED <<mcsVars, clhVars, toVars, arVars, bkVars, flVars, ptVars, tasVars, brVars, atVars, hsVars, aqVars>>

\* Backoff::new(min, max).
BoNew(min, max) ==
    /\ boPc = "none"
    /\ boPc' = "ready"
    /\ boLimit' = min
    /\ boMaxLimit' = max
    /\ UNCHANGED boDelay
    /\ BoFrame

\* Backoff::backoff.  random_duration divides by limit.as_nanos(): with a
\* limit of zero the remainder panics and nothing is slept.
BoBackoff(random) ==
    /\ boPc = "ready"
    /\ IF boLimit = 0
          THEN /\ boPc' = "panicked"
               /\ UNCHANGED <<boLimit, boDelay>>
          ELSE /\ boDelay' = RandomDuration(random, boLimit)
               /\ boLimit' = BackoffLimit(boLimit, boMaxLimit)
               /\ boPc' = boPc
    /\ UNCHANGED boMaxLimit
    /\ BoFrame

BoNext ==
    \/ \E min, max \in BoNanos : BoNew(min, max)
    \/ \E random \in RandomU64 : BoBackoff(random)

\* C30: for all min and max the limit never exceeds max, and every backoff()
\* call sleeps for less than the limit it found and then sets the limit to
\* min(2 * limit, max).
BoContract ==
    /\ [](boPc = "ready" => boLimit <= boMaxLimit)
    /\ [][boPc = "ready" =>
            /\ boPc' = "ready"
            /\ 0 <= boDelay' /\ boDelay' < boLimit
            /\ boLimit' = (IF 2 * boLimit <= boMaxLimit THEN 2 * boLimit ELSE boMaxLimit)]_vars

(***************************************************************************)
(* ArrayLock: references and guards together                               *)
(***************************************************************************)
\* The threads that use the lock; each owns at most one ArrayRef and one
\* ArrayGuard at a time, and the guard may outlive the reference it came
\* from (ArrayGuard<'a> borrows the lock, not the ArrayRef).
AqProcs == 3
AqP == 1..AqProcs
\* The largest max_threads given to with_capacity.
AqMaxThreads == 2
\* No acquire starts once next_slot has reached AqMaxSlot.
AqMaxSlot == 4

\* Before ArrayLock::with_capacity.
AqInit ==
    /\ aqFlags = [i \in {} |-> FALSE]
    /\ aqNextSlot = 0
    /\ aqRefsLeft = 0
    /\ aqRef = [p \in AqP |-> "none"]
    /\ aqSlot = [p \in AqP |-> 0]
    /\ aqGuard = [p \in AqP |-> "none"]

AqFrame == UNCHANGED <<mcsVars, clhVars, toVars, arVars, bkVars, flVars, ptVars, tasVars, brVars, atVars, hsVars, boVars>>

\* ArrayLock::capacity: flags.len().
AqCapacity == Cardinality(DOMAIN aqFlags)

\* ArrayLock::get_flag: the index of the flag that slot number `slot` maps to.
AqGetFlag(slot) == slot % AqCapacity

\* ArrayLock::with_capacity(max_threads): a first flag that is true, then
\* one false flag for each of 1..max_threads.
AqWithCapacity(max_threads) ==
    /\ AqCapacity = 0
    /\ aqFlags' = [i \in 0..(IF max_threads > 1 THEN max_threads - 1 ELSE 0) |-> i = 0]
    /\ aqNextSlot' = 0
    /\ aqRefsLeft' = max_threads
    /\ UNCHANGED <<aqRef, aqSlot, aqGuard>>
    /\ AqFrame

\* The participants that have taken a slot number and not finished the drop
\* of the guard obtained with it.
AqQueued == {p \in AqP : aqGuard[p] # "none"}

\* ArrayLock::borrow: refs_left.fetch_sub(1, Relaxed) and the branch on the
\* value it returned.
AqBorrow(p) ==
    /\ AqCapacity > 0
    /\ aqRef[p] = "none"
    /\ aqGuard[p] \in {"none", "held"}
    /\ aqRefsLeft' = aqRefsLeft - 1
    /\ aqRef' = [aqRef EXCEPT ![p] = IF BrHasRoom(aqRefsLeft) THEN "ref" ELSE "restore"]
    /\ UNCHANGED <<aqFlags, aqNextSlot, aqSlot, aqGuard>>
    /\ AqFrame

\* ArrayLock::borrow, else branch: refs_left.fetch_add(1, Relaxed).
AqRestore(p) ==
    /\ aqRef[p] = "restore"
    /\ aqRefsLeft' = aqRefsLeft + 1
    /\ aqRef' = [aqRef EXCEPT ![p] = "none"]
    /\ UNCHANGED <<aqFlags, aqNextSlot, aqSlot, aqGuard>>
    /\ AqFrame

\* ArrayRef::drop: refs_left.fetch_add(1, Relaxed).  acquire borrows the
\* reference for the call only, so it is dropped outside acquire, with or
\* without the guard still held.
AqDropRef(p) ==
    /\ aqRef[p] = "ref"
    /\ aqGuard[p] \in {"none", "held"}
    /\ aqRefsLeft' = aqRefsLeft + 1
    /\ aqRef' = [aqRef EXCEPT ![p] = "none"]
    /\ UNCHANGED <<aqFlags, aqNextSlot, aqSlot, aqGuard>>
    /\ AqFrame

\* acquire: slot = next_slot.fetch_add(1).
AqTakeSlot(p) ==
    /\ aqRef[p] = "ref"
    /\ aqGuard[p] = "none"
    /\ aqNextSlot < AqMaxSlot
    /\ aqSlot' = [aqSlot EXCEPT ![p] = aqNextSlot]
    /\ aqNextSlot' = aqNextSlot + 1
    /\ aqGuard' = [aqGuard EXCEPT ![p] = "spin"]
    /\ UNCHANGED <<aqFlags, aqRefsLeft, aqRef>>
    /\ AqFrame

\* acquire: while !curr_flag.load(Acquire) { }, then the guard is returned.
AqSpin(p) ==
    /\ aqGuard[p] = "spin"
    /\ aqFlags[AqGetFlag(aqSlot[p])]
    /\ aqGuard' = [aqGuard EXCEPT ![p] = "held"]
    /\ UNCHANGED <<aqFlags, aqNextSlot, aqRefsLeft, aqRef, aqSlot>>
    /\ AqFrame

\* ArrayGuard::drop: curr_flag.store(false, Relaxed).
AqClear(p) ==
    /\ aqGuard[p] = "held"
    /\ aqRef[p] # "restore"
    /\ aqFlags' = [aqFlags EXCEPT ![AqGetFlag(aqSlot[p])] = FALSE]
    /\ aqGuard' = [aqGuard EXCEPT ![p] = "setnext"]
    /\ UNCHANGED <<aqNextSlot, aqRefsLeft, aqRef, aqSlot>>
    /\ AqFrame

\* ArrayGuard::drop: next_flag.store(true, Release).
AqSetNext(p) ==
    /\ aqGuard[p] = "setnext"
    /\ aqFlags' = [aqFlags EXCEPT ![AqGetFlag(aqSlot[p] + 1)] = TRUE]
    /\ aqGuard' = [aqGuard EXCEPT ![p] = "none"]
    /\ UNCHANGED <<aqNextSlot, aqRefsLeft, aqRef, aqSlot>>
    /\ AqFrame

AqNext ==
    \/ \E max_threads \in 0..AqMaxThreads : AqWithCapacity(max_threads)
    \/ \E p \in AqP :
        \/ AqBorrow(p)
        \/ AqRestore(p)
        \/ AqDropRef(p)
        \/ AqTakeSlot(p)
        \/ AqSpin(p)
        \/ AqClear(p)
        \/ AqSetNext(p)

\* The flags of the ring that are true.
AqOpen == {i \in DOMAIN aqFlags : aqFlags[i]}

\* The participants whose spin on their flag can end.
AqAdmitted == {q \in AqP : aqGuard[q] = "spin" /\ aqFlags[AqGetFlag(aqSlot[q])]}

\* C32: flag ring of ArrayLock: at most one flag is true in every state; the
\* guard drop first clears the flag of the holder's slot, after which no flag
\* is true and no spin can end, and then sets the flag of slot + 1 mod N,
\* after which exactly the waiting participant with the next slot number can
\* leave its spin; with N = 1 the single flag is true again.
AqFlagRing ==
    /\ [](Cardinality(AqOpen) <= 1)
    /\ [][\A p \in AqP :
            (aqGuard[p] = "held" /\ aqGuard'[p] = "setnext") =>
                /\ ~aqFlags'[AqGetFlag(aqSlot[p])]
                /\ AqOpen' = {}
                /\ AqAdmitted' = {}]_vars
    /\ [][\A p \in AqP :
            (aqGuard[p] = "setnext" /\ aqGuard'[p] = "none") =>
                /\ aqFlags'[AqGetFlag(aqSlot[p] + 1)]
                /\ AqCapacity = 1 => aqFlags'[0]
                /\ AqOpen' = {AqGetFlag(aqSlot[p] + 1)}
                /\ AqAdmitted' = {q \in AqP : aqGuard[q] = "spin" /\ aqSlot[q] = aqSlot[p] + 1}]_vars

\* C13: ArrayLock is FIFO: a participant obtains the guard only when every
\* participant with a smaller slot number has dropped its guard, so guards are
\* obtained in the order of the slot numbers.
AqFifo ==
    [][\A p \in AqP :
          (aqGuard[p] = "spin" /\ aqGuard'[p] = "held")
              => \A q \in AqQueued \ {p} : aqSlot[q] > aqSlot[p]]_vars

\* C34: the participants that have taken a slot number and not yet dropped
\* their guard never outnumber capacity(), also when references are dropped
\* and borrowed again while guards are held, so that no two of them are
\* mapped to the same flag of the ring.
AqOccupancy ==
    AqCapacity > 0 =>
        /\ Cardinality(AqQueued) <= AqCapacity
        /\ \A p, q \in AqQueued :
              p # q => AqGetFlag(aqSlot[p]) # AqGetFlag(aqSlot[q])

(***************************************************************************)
(* Specifications                                                          *)
(***************************************************************************)
Init ==
    /\ McsInit
    /\ ClhInit
    /\ ToInit
    /\ ArInit
    /\ BkInit
    /\ FlInit
    /\ PtInit
    /\ TasInit
    /\ BrInit
    /\ AtInit
    /\ HsInit
    /\ BoInit
    /\ AqInit

\* The locks that the specification at hand leaves untouched start from one
\* of their initial states.
PtAtRest == ptMaxThreads = PtCapacity /\ ptId[1] = FALSE
TasAtRest == tasKind = "tas"
BrAtRest == brKind = "array" /\ brMaxThreads = BrMaxThreads
AtomicAtRest == ~atCopy
InitLock == Init /\ PtAtRest /\ TasAtRest /\ BrAtRest /\ AtomicAtRest
InitPeterson == Init /\ TasAtRest /\ BrAtRest /\ AtomicAtRest
InitTas == Init /\ PtAtRest /\ BrAtRest /\ AtomicAtRest
InitBorrow == Init /\ PtAtRest /\ TasAtRest /\ AtomicAtRest
InitAtomic == Init /\ PtAtRest /\ TasAtRest /\ BrAtRest

SpecMcs == InitLock /\ [][McsNext]_vars
SpecMcsFair == InitLock /\ [][McsNext]_vars /\ McsFairness
SpecClh == InitLock /\ [][ClhNext]_vars
SpecClhFair == InitLock /\ [][ClhNext]_vars /\ ClhFairness
SpecTimeout == InitLock /\ [][ToNext]_vars
SpecArray == InitLock /\ [][ArNext]_vars
SpecBakery == InitLock /\ [][BkDistinctNext]_vars
SpecBakeryRefs == InitLock /\ [][BkNext]_vars
SpecBakeryFair == InitLock /\ [][BkDistinctNext]_vars /\ BkFairness
SpecFilter == InitLock /\ [][FlDistinctNext]_vars
SpecFilterRefs == InitLock /\ [][FlNext]_vars
SpecFilterFair == InitLock /\ [][FlDistinctNext]_vars /\ FlFairness
SpecPeterson == InitPeterson /\ [][PtNext]_vars
SpecPetersonFair == InitPeterson /\ [][PtNext]_vars /\ PtFairness
SpecTas == InitTas /\ [][TasNext]_vars
SpecTasFair == InitTas /\ [][TasNext]_vars /\ TasFairness
SpecBorrow == InitBorrow /\ [][BrNext]_vars
SpecAtomic == InitAtomic /\ [][AtNext]_vars
SpecHandshake == InitLock /\ [][HandshakeNext]_vars
SpecBackoff == InitLock /\ [][BoNext]_vars
SpecArrayRefs == InitLock /\ [][AqNext]_vars

====
